---------------------------- MODULE Spec2Model ----------------------------
(***************************************************************************)
(* The frame codec of isdttool (src/isdttool/charger/charger.py).           *)
(*                                                                         *)
(* A byte is an integer in 0..255, a bytearray a sequence of bytes, a list *)
(* of frames a sequence of bytearrays.  Python's None is the value None    *)
(* below for a bytearray, NoFrames for a list, NoLength for an integer.    *)
(***************************************************************************)
EXTENDS Integers, Sequences, FiniteSets, TLC

(***************************************************************************)
(* Program constants.                                                      *)
(***************************************************************************)
SYNC == 170             \* 0xAA, the synchronization byte
HOST_TO_CHARGER == 18   \* 0x12, direction byte "computer to charger"
CHARGER_TO_HOST == 33   \* 0x21, direction byte "charger to computer"
REQUEST == 1            \* frame byte 0 of a request
RESPONSE == 2           \* frame byte 0 of a response
CHUNK_SIZE == 62        \* body bytes per frame
FRAME_SIZE == 64        \* bytes per frame handed to the transport
MIN_FRAME == 3          \* a received frame shorter than this ends the read
MAX_PAYLOAD == 255      \* "Must be <= 255 in length"

None == << -1 >>        \* Python's None where a bytearray is expected
NoFrames == << None >>  \* Python's None where a list of frames is expected
NoLength == -1          \* Python's None for expected_packet_length

Min(a, b) == IF a < b THEN a ELSE b

(***************************************************************************)
(* Python slices, 0-based and half-open as in the source: s[a:b] and s[a:] *)
(***************************************************************************)
Slice(s, a, b) == SubSeq(s, a + 1, Min(b, Len(s)))
SliceFrom(s, a) == SubSeq(s, a + 1, Len(s))

(***************************************************************************)
(* The loops over the bytes of a bytearray are folded over the index range *)
(* lo..hi by halves (left half first, its final loop state handed to the   *)
(* right half), so that the evaluation depth stays logarithmic in the      *)
(* length; the loop body is applied to the bytes in order, once each.      *)
(*                                                                         *)
(* __escape_synchronization__: every 0xAA is emitted twice.                *)
(***************************************************************************)
\* mutant: 0xAA is not doubled
escape_byte_single(b) == <<b>>

escape_byte(b) == IF b = SYNC THEN <<SYNC, b>> ELSE <<b>>

RECURSIVE escape_loop(_, _, _)
escape_loop(payload, lo, hi) ==
    IF lo > hi THEN <<>>
    ELSE IF lo = hi THEN escape_byte(payload[lo])
    ELSE LET mid == (lo + hi) \div 2
         IN  escape_loop(payload, lo, mid) \o escape_loop(payload, mid + 1, hi)

__escape_synchronization__(payload) == escape_loop(payload, 1, Len(payload))

(***************************************************************************)
(* __unescape_synchronization__: the loop over the bytes with its flag     *)
(* sync_seen.  A second consecutive 0xAA is kept, an unmatched one dropped.*)
(* unescape_byte is the loop body: the bytes it appends and the new flag.  *)
(***************************************************************************)
\* mutant: every 0xAA is kept, the first of a pair too
unescape_byte_keeps_first(b, sync_seen) ==
    IF b = SYNC
    THEN [sync_seen |-> ~sync_seen, result |-> <<SYNC>>]
    ELSE [sync_seen |-> FALSE, result |-> <<b>>]

\* mutant: an unmatched 0xAA before another byte is kept
unescape_byte_keeps_unmatched(b, sync_seen) ==
    IF b = SYNC
    THEN [sync_seen |-> ~sync_seen,
          result |-> IF sync_seen THEN <<SYNC>> ELSE <<>>]
    ELSE [sync_seen |-> FALSE,
          result |-> IF sync_seen THEN <<SYNC, b>> ELSE <<b>>]

unescape_byte(b, sync_seen) ==
    IF b = SYNC
    THEN [sync_seen |-> ~sync_seen,
          result |-> IF sync_seen THEN <<SYNC>> ELSE <<>>]
    ELSE [sync_seen |-> FALSE, result |-> <<b>>]

RECURSIVE unescape_loop(_, _, _, _)
unescape_loop(payload, lo, hi, sync_seen) ==
    IF lo > hi THEN [sync_seen |-> sync_seen, result |-> <<>>]
    ELSE IF lo = hi THEN unescape_byte(payload[lo], sync_seen)
    ELSE LET mid == (lo + hi) \div 2
             left == unescape_loop(payload, lo, mid, sync_seen)
             right == IF left.sync_seen
                      THEN unescape_loop(payload, mid + 1, hi, TRUE)
                      ELSE unescape_loop(payload, mid + 1, hi, FALSE)
         IN  [sync_seen |-> right.sync_seen,
              result |-> left.result \o right.result]

__unescape_synchronization__(payload) ==
    unescape_loop(payload, 1, Len(payload), FALSE).result

(***************************************************************************)
(* The 8-bit additive checksum of lines 77-79 and 197-199:                 *)
(* checksum = (checksum + b) & 0xFF for every byte b, that is the sum of   *)
(* the bytes modulo 256.                                                   *)
(***************************************************************************)
RECURSIVE checksum_loop(_, _, _)
checksum_loop(payload, lo, hi) ==
    IF lo > hi THEN 0
    ELSE IF lo = hi THEN payload[lo] % 256
    ELSE LET mid == (lo + hi) \div 2
         IN  (checksum_loop(payload, lo, mid)
              + checksum_loop(payload, mid + 1, hi)) % 256

checksum_of(payload) == checksum_loop(payload, 1, Len(payload))

(***************************************************************************)
(* __preprocess_payload__: direction, length, data, checksum; escaped;     *)
(* one sync byte inserted in front.                                        *)
(***************************************************************************)
inner_packet(data) == <<HOST_TO_CHARGER, Len(data) % 256>> \o data

\* mutant: the sync byte is inserted before the checksum and the escaping
__preprocess_payload___sync_first(data) ==
    LET payload == <<SYNC>> \o inner_packet(data)
    IN  __escape_synchronization__(Append(payload, checksum_of(payload)))

__preprocess_payload__(data) ==
    LET payload == inner_packet(data)
    IN  <<SYNC>> \o __escape_synchronization__(
            Append(payload, checksum_of(payload)))

(***************************************************************************)
(* __generate_raw_frames__: the stream cut into chunks of at most 62 bytes,*)
(* each behind a two-byte frame header.                                    *)
(***************************************************************************)
RECURSIVE split_loop(_, _, _)
split_loop(preprocessed_payload, i, chunk) ==
    IF i >= Len(preprocessed_payload) THEN <<>>
    ELSE <<Slice(preprocessed_payload, i,
                 Min(Len(preprocessed_payload), i + chunk))>>
         \o split_loop(preprocessed_payload, i + chunk, chunk)

split_payload(preprocessed_payload) ==
    split_loop(preprocessed_payload, 0, CHUNK_SIZE)

frames_of(preprocessed_payload) ==
    LET split == split_payload(preprocessed_payload)
    IN  [k \in 1..Len(split) |-> <<REQUEST, Len(split[k])>> \o split[k]]

__generate_raw_frames__(payload) == frames_of(__preprocess_payload__(payload))

(***************************************************************************)
(* Charger.read_packet, one pass of its while loop on a received frame.    *)
(* outcome "continue": the loop goes on with the new locals; "return": the *)
(* frame is shorter than 3 bytes and packet_data is returned as it stands; *)
(* "IndexError": the body of the first frame has no byte 0, 1 or 2.        *)
(***************************************************************************)
\* mutant: the body runs to the end of the frame as received
frame_body_to_the_end(frame_as_received) ==
    SliceFrom(frame_as_received, 2)

frame_body_of(frame_as_received) ==
    LET frame_length == Min(frame_as_received[2] + 2, Len(frame_as_received))
    IN  Slice(frame_as_received, 2, frame_length)

\* mutant: a frame of 2 bytes is let through
frame_too_short_below_2(frame_as_received) ==
    Len(frame_as_received) < MIN_FRAME - 1

frame_too_short(frame_as_received) == Len(frame_as_received) < MIN_FRAME

read_packet_frame(expected_packet_length, packet_data, frame_as_received) ==
    IF frame_too_short(frame_as_received)
    THEN [outcome |-> "return",
          expected_packet_length |-> expected_packet_length,
          packet_data |-> packet_data]
    ELSE LET frame_body == frame_body_of(frame_as_received)
         IN  IF expected_packet_length = NoLength
             THEN IF Len(frame_body) < 3
                  THEN [outcome |-> "IndexError",
                        expected_packet_length |-> expected_packet_length,
                        packet_data |-> packet_data]
                  ELSE [outcome |-> "continue",
                        expected_packet_length |-> frame_body[3],
                        packet_data |->
                            __unescape_synchronization__(SliceFrom(frame_body, 1))]
             ELSE [outcome |-> "continue",
                   expected_packet_length |-> expected_packet_length,
                   packet_data |->
                       packet_data \o __unescape_synchronization__(frame_body)]

(***************************************************************************)
(* The condition of the while loop of read_packet.                         *)
(***************************************************************************)
loop_continues(expected_packet_length, packet_data) ==
    \/ expected_packet_length = NoLength
    \/ Len(packet_data) < expected_packet_length + 3

(***************************************************************************)
(* The code after the loop: the checksum byte, the truncation, the sum and *)
(* the returned payload.                                                   *)
(***************************************************************************)
\* mutant: the accumulated bytes are not cut to expected_packet_length + 2
read_packet_finish_uncut(expected_packet_length, packet_data) ==
    [checksum_from_packet |-> packet_data[expected_packet_length + 2 + 1],
     checksum |-> checksum_of(packet_data),
     result |-> SliceFrom(packet_data, 2)]

read_packet_finish(expected_packet_length, packet_data) ==
    LET checksum_from_packet == packet_data[expected_packet_length + 2 + 1]
        truncated == Slice(packet_data, 0, expected_packet_length + 2)
    IN  [checksum_from_packet |-> checksum_from_packet,
         checksum |-> checksum_of(truncated),
         result |-> SliceFrom(truncated, 2)]

(***************************************************************************)
(* Charger.read_packet on a list of captured frames, run to its end.       *)
(* captured_frames is what is left of the list (pop(0) removes in place).  *)
(***************************************************************************)
RECURSIVE read_packet_loop(_, _, _)
read_packet_loop(expected_packet_length, packet_data, captured_frames) ==
    IF ~loop_continues(expected_packet_length, packet_data)
    THEN [exit |-> "complete",
          result |-> read_packet_finish(expected_packet_length, packet_data).result,
          captured_frames |-> captured_frames]
    ELSE IF captured_frames = <<>>
    THEN [exit |-> "IndexError", result |-> None,
          captured_frames |-> captured_frames]
    ELSE LET r == read_packet_frame(expected_packet_length, packet_data,
                                    Head(captured_frames))
         IN  CASE r.outcome = "continue" ->
                    read_packet_loop(r.expected_packet_length, r.packet_data,
                                     Tail(captured_frames))
               [] r.outcome = "return" ->
                    [exit |-> "frame too short", result |-> packet_data,
                     captured_frames |-> Tail(captured_frames)]
               [] OTHER ->
                    [exit |-> "IndexError", result |-> None,
                     captured_frames |-> Tail(captured_frames)]

read_packet(captured_frames) == read_packet_loop(NoLength, None, captured_frames)

(***************************************************************************)
(* Charger.write_to_charger: every frame zero-padded to 64 bytes and       *)
(* handed to the device, in order.                                         *)
(***************************************************************************)
\* mutant: the padding counts the body only
pad_frame_of_body(f) == f \o [k \in 1..(FRAME_SIZE - (Len(f) - 2)) |-> 0]

pad_frame(f) == f \o [k \in 1..(FRAME_SIZE - Len(f)) |-> 0]

write_to_charger(payload) ==
    LET frames == __generate_raw_frames__(payload)
    IN  [k \in 1..Len(frames) |-> pad_frame(frames[k])]

(***************************************************************************)
(* representation.py: parse_packet.                                        *)
(*                                                                         *)
(* A dict is a function from its keys (strings) to its values.  A str      *)
(* decoded from packet bytes is the sequence of its code points; a str     *)
(* the code writes or formats from numbers is a string.  An unsigned       *)
(* 32-bit value is held as its four bytes, least significant first.        *)
(***************************************************************************)
NoModel == "None"       \* Python's None where a model tag is expected

SupportedModels == {"A4", "C4", "C4EVO", "Q8", "ignore"}

NoRecord == << >>       \* no dict was returned

\* defaultdict(lambda: 'unknown', table)[id]
Lookup(table, id) == IF id \in DOMAIN table THEN table[id] ELSE "unknown"

\* lines 24-26
mode_strings_A4_C4 ==
    [i \in 0..12 |->
        << "idling", "waiting", "reversed", "charging", "charged",
           "discharging", "discharged", "storage", "storage done",
           "cycling", "cycling done", "analysis", "analysis done" >>[i + 1]]

\* lines 51-54
mode_strings_C4EVO ==
    mode_strings_A4_C4 @@ (13 :> "activate") @@ (15 :> "destroy")
                       @@ (17 :> "Cut off")

mode_strings(model) ==
    CASE model \in {"A4", "C4"} -> mode_strings_A4_C4
      [] model = "C4EVO" -> mode_strings_C4EVO
      [] model = "Q8" -> (3 :> "charging")
      [] OTHER -> << >>

chemistry_strings(model) ==
    CASE model \in {"A4", "C4"} ->
            (0 :> "auto") @@ (1 :> "LiHv") @@ (2 :> "Li-Ion") @@ (3 :> "LiPO4")
            @@ (5 :> "NiZn") @@ (6 :> "NiMH!!!") @@ (7 :> "Eneloop")
            @@ (8 :> "NiCd") @@ (9 :> "NiMH")
      [] model = "C4EVO" ->
            (0 :> "LiHv") @@ (1 :> "LiIon") @@ (2 :> "LiFe") @@ (3 :> "NiZn")
            @@ (4 :> "NiMH")
      [] model = "Q8" -> (9 :> "LiIon")
      [] OTHER -> << >>

\* mutant: the C4 table is used for the A4 too
dimension_strings_of_C4(model) ==
    CASE model \in {"A4", "C4"} ->
            (0 :> "AAA") @@ (1 :> "AA") @@ (2 :> "18650") @@ (3 :> "26650")
            @@ (4 :> "empty")
      [] OTHER -> << >>

dimension_strings(model) ==
    CASE model = "A4" -> (0 :> "AA(A)")
      [] model = "C4" ->
            (0 :> "AAA") @@ (1 :> "AA") @@ (2 :> "18650") @@ (3 :> "26650")
            @@ (4 :> "empty")
      [] OTHER -> << >>

\* struct's B, H, h, i and I at offset off of packet, little-endian
u8(packet, off) == packet[off + 1]

u16(packet, off) == packet[off + 1] + 256 * packet[off + 2]

s16(packet, off) ==
    IF u16(packet, off) >= 32768 THEN u16(packet, off) - 65536
                                 ELSE u16(packet, off)

s32(packet, off) ==
    u16(packet, off) + 65536 * s16(packet, off + 2)

u32(packet, off) == SubSeq(packet, off + 1, off + 4)

\* str(n) of a number n >= 0
Digits == << "0", "1", "2", "3", "4", "5", "6", "7", "8", "9",
             "a", "b", "c", "d", "e", "f" >>

RECURSIVE DecStr(_)
DecStr(n) == IF n < 10 THEN Digits[n + 1]
             ELSE DecStr(n \div 10) \o Digits[(n % 10) + 1]

\* '{:02d}'
Dec02(n) == IF n < 10 THEN "0" \o DecStr(n) ELSE DecStr(n)

\* '{}.{}.{}.{}'.format of the four bytes at offset off
version_string(packet, off) ==
    DecStr(packet[off + 1]) \o "." \o DecStr(packet[off + 2]) \o "."
    \o DecStr(packet[off + 3]) \o "." \o DecStr(packet[off + 4])

\* '20{:02d}-{:02d}-{:02d} {:02d}:{:02d}'.format of the five bytes at off
build_time_string(packet, off) ==
    "20" \o Dec02(packet[off + 1]) \o "-" \o Dec02(packet[off + 2]) \o "-"
    \o Dec02(packet[off + 3]) \o " " \o Dec02(packet[off + 4]) \o ":"
    \o Dec02(packet[off + 5])

\* bytes(...).hex()
RECURSIVE hex(_)
hex(bytes) ==
    IF bytes = << >> THEN ""
    ELSE Digits[(Head(bytes) \div 16) + 1] \o Digits[(Head(bytes) % 16) + 1]
         \o hex(Tail(bytes))

\* .decode('ascii') raises UnicodeDecodeError on a byte above 0x7F
is_ascii(bytes) == \A k \in 1..Len(bytes) : bytes[k] < 128

\* .rstrip('\x00')
RECURSIVE rstrip_nul(_)
rstrip_nul(s) ==
    IF s # << >> /\ s[Len(s)] = 0 THEN rstrip_nul(SubSeq(s, 1, Len(s) - 1))
    ELSE s

\* what a call hands back: a dict, or the exception it raised
Returned(dict) == [exit |-> "return", result |-> dict]
Raised(exception) == [exit |-> exception, result |-> NoRecord]

\* lines 72-86
link_test_packet(packet) ==
    LET type == "_type" :> "link test"
    IN  CASE Len(packet) = 4 ->
                Returned(type @@ ("_malformed" :> FALSE) @@ ("result" :> TRUE)
                         @@ ("inside boot loader" :> (packet[2] = 145)))
          [] Len(packet) = 10 ->
                IF is_ascii(SliceFrom(packet, 2))
                THEN Returned(type @@ ("_malformed" :> FALSE)
                              @@ ("result" :> TRUE)
                              @@ ("inside boot loader" :> (packet[2] = 0))
                              @@ ("model" :> rstrip_nul(SliceFrom(packet, 2))))
                ELSE Raised("UnicodeDecodeError")
          [] OTHER -> Returned(type @@ ("_malformed" :> TRUE))

\* mutant: the record is left without its _malformed key
voltage_test_mode_packet_type_only(packet) ==
    Returned("_type" :> "voltage-test-mode")

\* lines 87-89
voltage_test_mode_packet(packet) ==
    Returned(("_type" :> "voltage-test-mode") @@ ("_malformed" :> FALSE))

\* lines 90-109
device_information_packet(packet) ==
    LET type == "_type" :> "device information"
    IN  IF Len(packet) \notin {31, 29, 39}
        THEN Returned(type @@ ("_malformed" :> TRUE))
        ELSE IF ~is_ascii(Slice(packet, 21, 31))
        THEN Raised("UnicodeDecodeError")
        ELSE Returned(
                type
                @@ ("hw version" :> version_string(packet, 9))
                @@ ("bl version" :> version_string(packet, 13))
                @@ ("app version" :> version_string(packet, 17))
                @@ ("model name" :> rstrip_nul(Slice(packet, 21, 31)))
                @@ (IF Len(packet) = 39
                    THEN "loader build time?" :> build_time_string(packet, 33)
                    ELSE << >>)
                @@ ("_malformed" :> FALSE))

\* lines 110-123
reboot_to_boot_loader_packet(packet) ==
    LET type == "_type" :> "reboot to boot loader"
    IN  CASE Len(packet) # 2 -> Returned(type @@ ("_malformed" :> TRUE))
          [] Len(packet) = 2 /\ packet[2] = 0 ->
                Returned(type @@ ("rebooting" :> TRUE)
                         @@ ("next stop" :> "boot loader")
                         @@ ("_malformed" :> FALSE))
          [] Len(packet) = 2 /\ packet[2] = 2 ->
                Returned(type @@ ("rebooting" :> FALSE)
                         @@ ("_malformed" :> FALSE))
          [] OTHER -> Returned(type @@ ("_malformed" :> TRUE))

\* lines 124-132
rename_device_packet(packet) ==
    LET type == "_type" :> "rename device"
    IN  IF Len(packet) # 2
        THEN Returned(type @@ ("_malformed" :> TRUE))
        ELSE Returned(type @@ ("renamed" :> TRUE) @@ ("rebooting" :> TRUE)
                      @@ ("next stop" :> "app") @@ ("_malformed" :> FALSE))

\* lines 133-139
serial_number_packet(packet) ==
    LET type == "_type" :> "serial number"
    IN  IF Len(packet) # 13
        THEN Returned(type @@ ("_malformed" :> TRUE))
        ELSE Returned(type @@ ("_malformed" :> FALSE)
                      @@ ("serial number" :> hex(SliceFrom(packet, 1))))

\* lines 140-148
reboot_to_app_packet(packet) ==
    LET type == "_type" :> "reboot to app"
    IN  IF Len(packet) # 2 /\ Len(packet) # 1
        THEN Returned(type @@ ("_malformed" :> TRUE))
        ELSE Returned(type @@ ("rebooting" :> TRUE) @@ ("next stop" :> "app")
                      @@ ("_malformed" :> FALSE)
                      @@ ("coming from" :>
                            IF Len(packet) = 1 THEN "boot loader" ELSE "app"))

\* lines 149-198: unpack_from('<BBBBBBBhhHhhiI', packet, 1)
metrics_packet(packet, model) ==
    LET type == "_type" :> "metrics"
    IN  CASE Len(packet) = 1 ->
                Returned(type @@ ("_channel exists" :> FALSE)
                         @@ ("_malformed" :> FALSE))
          [] Len(packet) # 1 /\ Len(packet) # 26 ->
                Returned(type @@ ("_malformed" :> TRUE))
          [] OTHER ->
                Returned(
                    type
                    @@ ("_channel exists" :> TRUE)
                    @@ ("channel" :> u8(packet, 1))
                    @@ ("mode id" :> u8(packet, 2))
                    @@ ("mode string" :>
                            Lookup(mode_strings(model), u8(packet, 2)))
                    @@ ("chemistry id" :> u8(packet, 3))
                    @@ ("chemistry string" :>
                            Lookup(chemistry_strings(model), u8(packet, 3)))
                    @@ ("dimensions id" :> u8(packet, 4))
                    @@ ("dimensions string" :>
                            Lookup(dimension_strings(model), u8(packet, 4)))
                    @@ ("temperature" :> u8(packet, 5))
                    @@ ("internal_temperature" :> u8(packet, 6))
                    @@ ("progress" :> u8(packet, 7))
                    @@ ("charging voltage" :> s16(packet, 8))
                    @@ ("charging current" :> s16(packet, 10))
                    @@ ("resistance" :> u16(packet, 12))
                    @@ ("power" :> s16(packet, 14))
                    @@ ("energy" :> s16(packet, 16))
                    @@ ("capacity or peak voltage" :> s32(packet, 18))
                    @@ ("time" :> u32(packet, 22))
                    @@ ("_malformed" :> FALSE))

\* lines 199-205
app_checksum_packet(packet) ==
    LET type == "_type" :> "app checksum"
    IN  IF Len(packet) # 15
        THEN Returned(type @@ ("_malformed" :> TRUE))
        ELSE Returned(type @@ ("checksum matches" :> (packet[3] = 0))
                      @@ ("_malformed" :> FALSE))

\* lines 206-228: unpack_from('<xxxxxxHHHHHHHHBBBBBx', packet, 1)
sensors_packet(packet) ==
    LET type == "_type" :> "sensors"
    IN  IF Len(packet) # 29
        THEN Returned(type @@ ("_malformed" :> TRUE))
        ELSE Returned(
                type
                @@ ("psu voltage" :> u16(packet, 7))
                @@ ("usb voltage" :> u16(packet, 9))
                @@ ("unknown voltage 1" :> u16(packet, 11))
                @@ ("unknown voltage 2" :> u16(packet, 13))
                @@ ("unknown voltage 3" :> u16(packet, 15))
                @@ ("unknown voltage 4" :> u16(packet, 17))
                @@ ("unknown voltage 5" :> u16(packet, 19))
                @@ ("unknown voltage 6" :> u16(packet, 21))
                @@ ("channel temperature 1" :> u8(packet, 23))
                @@ ("channel temperature 2" :> u8(packet, 24))
                @@ ("channel temperature 3" :> u8(packet, 25))
                @@ ("channel temperature 4" :> u8(packet, 26))
                @@ ("unknown temperature" :> u8(packet, 27))
                @@ ("_malformed" :> FALSE))

\* result[f'{name} {first}'] .. result[f'{name} {first + count - 1}'], the
\* i-th being the unsigned 16-bit value at offset off + 2 * (i - first)
RECURSIVE numbered_voltages(_, _, _, _, _)
numbered_voltages(name, first, count, packet, off) ==
    IF count = 0 THEN << >>
    ELSE ((name \o " " \o DecStr(first)) :> u16(packet, off))
         @@ numbered_voltages(name, first + 1, count - 1, packet, off + 2)

\* lines 229-245: unpack_from('<9H', packet, 1)
unknown_voltages_packet(packet) ==
    LET type == "_type" :> "unknown voltages"
    IN  IF Len(packet) # 19
        THEN Returned(type @@ ("_malformed" :> TRUE))
        ELSE Returned(type @@ ("_malformed" :> FALSE)
                      @@ numbered_voltages("unknown voltage", 1, 9, packet, 1))

\* lines 246-260: unpack_from raises struct.error when the buffer is short
channel_packet(packet, model) ==
    IF model = "C4EVO"
    THEN \* unpack_from('<BHHHxxB', packet, 1): 10 bytes
         IF Len(packet) - 1 < 10 THEN Raised("struct.error")
         ELSE Returned(("_type" :> "channel metrics")
                       @@ ("_malformed" :> FALSE)
                       @@ ("channel" :> u8(packet, 1))
                       @@ ("psu voltage" :> u16(packet, 2))
                       @@ ("charging voltage" :> u16(packet, 4))
                       @@ ("current" :> u16(packet, 6))
                       @@ ("temperature" :> u8(packet, 10)))
    ELSE \* unpack_from('<BHIHI', packet, 1): 13 bytes, then
         \* unpack_from(f'<{channel count}H', packet, 14)
         IF Len(packet) - 1 < 13 THEN Raised("struct.error")
         ELSE IF Len(packet) - 14 < 2 * u8(packet, 1)
         THEN Raised("struct.error")
         ELSE Returned(("_type" :> "channel voltages")
                       @@ ("channel count" :> u8(packet, 1))
                       @@ ("psu voltage" :> u16(packet, 2))
                       @@ ("some 32 bit integer" :> u32(packet, 4))
                       @@ ("total voltage" :> u16(packet, 8))
                       @@ ("another 32 bit integer" :> u32(packet, 10))
                       @@ numbered_voltages("channel voltage", 0,
                                            u8(packet, 1), packet, 14)
                       @@ ("_malformed" :> FALSE))

\* mutant: the record is given a _malformed key as the others are
unknown_packet_malformed(packet) ==
    Returned(("_type" :> "unknown") @@ ("_malformed" :> TRUE))

\* lines 261-262
unknown_packet(packet) == Returned("_type" :> "unknown")

\* mutant: no model, None, is taken for 'ignore'
model_supported_or_none(model) == model \in SupportedModels \cup {NoModel}

\* lines 22-68: the chain of model tests ends in raise ValueError
model_supported(model) == model \in SupportedModels

\* lines 10-264
parse_packet(packet, model) ==
    IF ~model_supported(model) THEN Raised("ValueError")
    ELSE IF packet = None THEN Raised("TypeError")
    ELSE IF packet = << >> THEN Raised("IndexError")
    ELSE CASE packet[1] = 1 -> link_test_packet(packet)
           [] packet[1] = 3 -> voltage_test_mode_packet(packet)
           [] packet[1] = 225 -> device_information_packet(packet)
           [] packet[1] = 241 -> reboot_to_boot_loader_packet(packet)
           [] packet[1] = 193 -> rename_device_packet(packet)
           [] packet[1] = 201 -> serial_number_packet(packet)
           [] packet[1] = 253 -> reboot_to_app_packet(packet)
           [] packet[1] = 223 -> metrics_packet(packet, model)
           [] packet[1] = 247 -> app_checksum_packet(packet)
           [] packet[1] = 249 -> sensors_packet(packet)
           [] packet[1] = 251 -> unknown_voltages_packet(packet)
           [] packet[1] = 229 -> channel_packet(packet, model)
           [] OTHER -> unknown_packet(packet)

(***************************************************************************)
(* firmware/__init__.py: decrypt_firmware_image.                           *)
(*                                                                         *)
(* A 32-bit word is held as its four bytes, least significant first, the   *)
(* way the image stores it; addition and exclusive or work on the bytes.   *)
(***************************************************************************)
HEADER_SIZE == 32       \* encrypted.read(32)
BLOCK_SIZE == 4         \* encrypted.read(4)
POINTER_OFFSET == 40    \* output.seek(40)
STRUCTURE_SIZE == 28    \* output.read(28)

ZeroWord == <<0, 0, 0, 0>>

\* a ^ b on the n low bits
RECURSIVE xor_bits(_, _, _)
xor_bits(a, b, n) ==
    IF n = 0 THEN 0
    ELSE ((a + b) % 2) + 2 * xor_bits(a \div 2, b \div 2, n - 1)

\* x ^ y
xor_word(x, y) == [k \in 1..4 |-> xor_bits(x[k], y[k], 8)]

\* mutant: the carry out of a byte is lost
add_word_bytewise(x, y) == [k \in 1..4 |-> (x[k] + y[k]) % 256]

\* (x + y) & 0xFFFFFFFF
add_word(x, y) ==
    LET s1 == x[1] + y[1]
        s2 == x[2] + y[2] + (s1 \div 256)
        s3 == x[3] + y[3] + (s2 \div 256)
        s4 == x[4] + y[4] + (s3 \div 256)
    IN  <<s1 % 256, s2 % 256, s3 % 256, s4 % 256>>

\* the word at index i (from 0) of the unpacked header
header_word(header_bytes, i) == SubSeq(header_bytes, 4 * i + 1, 4 * i + 4)

\* lines 43-44: key2 = (key2 + key1) & 0xFFFFFFFF; key2 ^= key1
next_key2(key1, key2) == xor_word(add_word(key2, key1), key1)

\* the values key2 takes in the first n passes of the loop
RECURSIVE key2_values(_, _, _)
key2_values(key1, key2, n) ==
    IF n = 0 THEN << >>
    ELSE IF n = 1 THEN <<key2>>
    ELSE LET before == key2_values(key1, key2, n - 1)
         IN  Append(before, next_key2(key1, before[n - 1]))

\* line 47 over the blocks lo..hi: the sum & 0xFFFFFFFF
RECURSIVE sum_of_blocks(_, _, _)
sum_of_blocks(blocks, lo, hi) ==
    IF lo > hi THEN ZeroWord
    ELSE IF lo = hi THEN blocks[lo]
    ELSE LET mid == (lo + hi) \div 2
         IN  add_word(sum_of_blocks(blocks, lo, mid),
                      sum_of_blocks(blocks, mid + 1, hi))

\* lines 38-48: the blocks written, in order, and their sum; the loop ends
\* at the first read of fewer than 4 bytes
decrypt_loop(body, key1, key2) ==
    LET n == Len(body) \div BLOCK_SIZE
        keys == key2_values(key1, key2, n)
        blocks == [i \in 1..n |->
                      xor_word(SubSeq(body, BLOCK_SIZE * (i - 1) + 1,
                                      BLOCK_SIZE * i),
                               keys[i])]
    IN  [output |-> [j \in 1..(BLOCK_SIZE * n) |->
                        blocks[((j - 1) \div BLOCK_SIZE) + 1]
                              [((j - 1) % BLOCK_SIZE) + 1]],
         calculated_checksum |-> sum_of_blocks(blocks, 1, n)]

\* output.seekable() and output.readable(): a BytesIO and a file opened
\* 'w+b' are both, a file opened 'wb' cannot be read
OutputKinds == {"BytesIO", "w+b", "wb"}

seekable_and_readable(output_kind) == output_kind \in {"BytesIO", "w+b"}

\* int.from_bytes(bytes, 'little') of at most 4 bytes, as a word
from_bytes(bytes) == [k \in 1..4 |-> IF k <= Len(bytes) THEN bytes[k] ELSE 0]

\* value - app_storage_offset as an integer; a difference beyond 2^30 in
\* size is held as 2^30 with its sign, far outside every output
FarPointer == 1073741824

pointer_of(value, app_storage_offset) ==
    LET high == (value[3] + 256 * value[4])
                    - (app_storage_offset[3] + 256 * app_storage_offset[4])
        low == (value[1] + 256 * value[2])
                    - (app_storage_offset[1] + 256 * app_storage_offset[2])
    IN  CASE high > 16383 -> FarPointer
          [] high < -16383 -> -FarPointer
          [] OTHER -> 65536 * high + low

\* str(n) of any integer
SignedDecStr(n) == IF n < 0 THEN "-" \o DecStr(-n) ELSE DecStr(n)

\* 'b' of struct: a signed byte
s8(packet, off) ==
    IF packet[off + 1] >= 128 THEN packet[off + 1] - 256 ELSE packet[off + 1]

\* '{}.{}.{}.{}'.format of the four signed bytes at offset off
signed_version_string(packet, off) ==
    SignedDecStr(s8(packet, off)) \o "." \o SignedDecStr(s8(packet, off + 1))
    \o "." \o SignedDecStr(s8(packet, off + 2)) \o "."
    \o SignedDecStr(s8(packet, off + 3))

\* lines 50-83: the information structure inside the decrypted image
information_structure(written, app_storage_offset, output_kind) ==
    IF ~seekable_and_readable(output_kind) THEN Returned(<< >>)
    ELSE LET pointer == pointer_of(
                            from_bytes(Slice(written, POINTER_OFFSET,
                                             POINTER_OFFSET + 4)),
                            app_storage_offset)
             structure == Slice(written, pointer, pointer + STRUCTURE_SIZE)
         IN  CASE pointer < 0 /\ output_kind = "BytesIO" ->
                    Raised("ValueError")     \* negative seek value
               [] pointer < 0 -> Returned(<< >>)     \* OSError, caught
               [] pointer >= 0 /\ Len(structure) < STRUCTURE_SIZE ->
                    Returned(<< >>)          \* struct.error, caught
               [] OTHER ->
                    IF ~is_ascii(rstrip_nul(Slice(structure, 4, 12)))
                    THEN Raised("UnicodeDecodeError")
                    ELSE Returned(
                            ("info_structure_pointer" :> pointer)
                            @@ ("magic" :> u32(structure, 0))
                            @@ ("model_name" :>
                                    rstrip_nul(Slice(structure, 4, 12)))
                            @@ ("hw_version" :>
                                    signed_version_string(structure, 12))
                            @@ ("sw_version" :>
                                    signed_version_string(structure, 16))
                            @@ ("entrypoint" :> u32(structure, 20))
                            @@ ("app_image_size" :> u32(structure, 24)))

\* lines 10-90; output is what was written, also when the call raises
decrypt_firmware_image(encrypted_bytes, output_kind) ==
    IF Len(encrypted_bytes) < HEADER_SIZE
    THEN [exit |-> "return", result |-> << >>, output |-> << >>]
    ELSE LET encryption_key == header_word(encrypted_bytes, 0)
             file_checksum == header_word(encrypted_bytes, 1)
             app_storage_offset == header_word(encrypted_bytes, 2)
             decrypted == decrypt_loop(SliceFrom(encrypted_bytes, HEADER_SIZE),
                                       encryption_key, file_checksum)
             information == information_structure(
                                decrypted.output, app_storage_offset,
                                output_kind)
         IN  IF information.exit # "return"
             THEN [exit |-> information.exit, result |-> NoRecord,
                   output |-> decrypted.output]
             ELSE [exit |-> "return",
                   result |->
                        ("embedded_checksum" :> file_checksum)
                        @@ ("calculated_checksum" :>
                                decrypted.calculated_checksum)
                        @@ ("app_storage_offset" :> app_storage_offset)
                        @@ ("data_storage_offset" :>
                                header_word(encrypted_bytes, 3))
                        @@ ("app_size" :> header_word(encrypted_bytes, 4))
                        @@ ("data_size" :> header_word(encrypted_bytes, 5))
                        @@ ("initial_baud_rate" :>
                                header_word(encrypted_bytes, 6))
                        @@ ("fast_baud_rate" :>
                                header_word(encrypted_bytes, 7))
                        @@ information.result,
                   output |-> decrypted.output]

\* cli_tool.py, lines 29-32: header['embedded_checksum'] and
\* header['calculated_checksum'] are printed
firmware_decrypt_prints(header_dict) ==
    IF {"embedded_checksum", "calculated_checksum"} \subseteq DOMAIN header_dict
    THEN "printed"
    ELSE "KeyError"

(***************************************************************************)
(* charger.py and actions.py: the commands of a session.                   *)
(*                                                                         *)
(* A str the caller passes (a name, a model tag) that is compared with the *)
(* tags of the code is a string; one that is encoded is the sequence of    *)
(* its code points.                                                        *)
(***************************************************************************)
\* str.encode(encoding='utf8') of code points below 0x800
RECURSIVE utf8(_)
utf8(s) ==
    IF s = << >> THEN << >>
    ELSE (IF Head(s) < 128 THEN <<Head(s)>>
          ELSE <<192 + (Head(s) \div 64), 128 + (Head(s) % 64)>>)
         \o utf8(Tail(s))

\* charger.py, lines 220-300: the payload each command hands to
\* write_to_charger
link_test_command == <<0>>

rename_device_command(new_name) ==
    Slice(<<192>> \o utf8(new_name) \o [k \in 1..8 |-> 0], 0, 9)

get_mcu_serial_number_command == <<200>>

metrics_command(channel) == <<222, channel>>

version_command == <<224>>

boot_to_loader_command == <<240, 172>>

verify_firmware_command(app_storage_offset, app_size, calculated_checksum) ==
    <<246, 53, 0>> \o app_storage_offset \o app_size \o calculated_checksum

read_some_sensors_command == <<248>>

channel_sensors_command(channel) == <<228, channel>>

channel_voltages_command == <<228>>

boot_to_app_command == <<252, 202>>

\* the str of the code points of a model name, for the names of the
\* chargers; any other name is no tag of the code
str_of(name) ==
    CASE name = <<65, 52>> -> "A4"
      [] name = <<67, 52>> -> "C4"
      [] name = <<67, 52, 69, 86, 79>> -> "C4EVO"
      [] name = <<81, 56>> -> "Q8"
      [] name = <<105, 103, 110, 111, 114, 101>> -> "ignore"
      [] name = <<97, 117, 116, 111>> -> "auto"
      [] OTHER -> "other"

\* actions.py: the configurations each guarded action hands to
\* assure_compatibility, as <<model, mode>> pairs in the order of the code
Everywhere ==
    << <<"C4", "app">>, <<"A4", "app">>, <<"C4", "boot loader">>,
       <<"A4", "boot loader">>, <<"C4EVO", "app">>,
       <<"C4EVO", "boot loader">> >>

configurations(action) ==
    CASE action = "rename_device" -> << <<"C4", "app">>, <<"Q8", "app">> >>
      [] action = "read_serial_number" ->
            << <<"C4", "app">>, <<"A4", "app">> >>
      [] action = "display_metrics" ->
            << <<"C4", "app">>, <<"A4", "app">>, <<"C4EVO", "app">> >>
      [] action = "reboot_to_boot_loader" -> Everywhere
      [] action = "reboot_to_app" -> Everywhere
      [] action = "verify_firmware" ->
            << <<"C4", "boot loader">>, <<"A4", "boot loader">>,
               <<"C4EVO", "boot loader">> >>
      [] action = "display_sensors" -> << <<"C4", "app">> >>
      [] action = "display_channel_sensors" -> << <<"C4EVO", "app">> >>
      [] action = "display_channel_voltages" -> << <<"Q8", "app">> >>

GuardedActions ==
    {"rename_device", "read_serial_number", "display_metrics",
     "reboot_to_boot_loader", "reboot_to_app", "verify_firmware",
     "display_sensors", "display_channel_sensors",
     "display_channel_voltages"}

\* mutant: the check is skipped when the debug mode is on
assure_compatibility_unless_debug(a_model, a_mode, configs, debug_mode) ==
    \/ debug_mode
    \/ \E k \in 1..Len(configs) :
          /\ a_model \in {configs[k][1], "ignore"}
          /\ a_mode \in {configs[k][2], "ignore"}

\* actions.py, lines 30-48; debug_mode is isdttool.DEBUG_MODE, which the
\* code does not read
assure_compatibility(a_model, a_mode, configs, debug_mode) ==
    \E k \in 1..Len(configs) :
        /\ a_model \in {configs[k][1], "ignore"}
        /\ a_mode \in {configs[k][2], "ignore"}

\* how packet_to_str(response, model) ends, 'return' or the exception it
\* raises (representation.py, lines 267-360); the text is not modelled.
\* A defaultdict answers 'n/a' for a missing key, but format(**packet)
\* does not see the default
packet_to_str_exit(response, model) ==
    IF response = None THEN "ValueError"
    ELSE LET parsed == parse_packet(response, model)
             keys == DOMAIN parsed.result
         IN  IF parsed.exit # "return" THEN parsed.exit
             ELSE CASE parsed.result["_type"] = "metrics"
                        /\ "_channel exists" \notin keys -> "TypeError"
                    [] parsed.result["_type"] = "sensors"
                        /\ "psu voltage" \notin keys -> "KeyError"
                    [] parsed.result["_type"] = "unknown voltages"
                        /\ "unknown voltage 1" \notin keys -> "KeyError"
                    [] OTHER -> "return"

OutputModes == {"text", "json", "csv", "dict", "raw"}

\* how print_simple_result ends once read_packet has returned result
\* (actions.py, lines 58-76)
print_simple_result_exit(result_of_read, a_model, output_mode) ==
    IF result_of_read = None THEN "return"
    ELSE CASE output_mode = "text" ->
                packet_to_str_exit(result_of_read, a_model)
           [] output_mode \in {"dict", "json", "csv"} ->
                parse_packet(result_of_read, a_model).exit
           [] output_mode = "raw" -> "return"
           [] OTHER -> "ValueError"

\* csv.DictWriter: no field names before the first row
NoFields == {"<none>"}

\* display_metrics, lines 147-163, on the result of one request: how it
\* ends and the field names of the csv writer afterwards
display_metrics_output(result_of_read, a_model, output_mode, fieldnames) ==
    LET parsed == parse_packet(result_of_read, a_model)
        fields == IF fieldnames = NoFields THEN DOMAIN parsed.result
                                           ELSE fieldnames
    IN  CASE output_mode = "text" ->
                [exit |-> packet_to_str_exit(result_of_read, a_model),
                 fieldnames |-> fieldnames]
          [] output_mode \in {"dict", "json"} ->
                [exit |-> parsed.exit, fieldnames |-> fieldnames]
          [] output_mode = "csv" ->
                IF parsed.exit # "return"
                THEN [exit |-> parsed.exit, fieldnames |-> fieldnames]
                ELSE [exit |-> IF DOMAIN parsed.result \subseteq fields
                               THEN "return" ELSE "ValueError",
                      fieldnames |-> fields]
          [] output_mode = "raw" ->
                [exit |-> IF result_of_read = None THEN "TypeError"
                                                   ELSE "return",
                 fieldnames |-> fieldnames]
          [] OTHER -> [exit |-> "return", fieldnames |-> fieldnames]

(***************************************************************************)
(* Bounds of the model and the inputs drawn within them.                   *)
(***************************************************************************)
MaxPayloadLen == 60     \* payloads of every length up to this one
MaxFrames == 3          \* frames a device delivers to one read_packet call
MaxEscapeLen == 6       \* length of the byte strings handed to the escaping

\* n bytes, all 0x00 except byte v at position i (no such position for i = 0)
Payload(n, i, v) == [k \in 1..n |-> IF k = i THEN v ELSE 0]

\* 0xAA, and 0x5F which makes the checksum of a 57-byte payload 0xAA
SpecialBytes == {SYNC, 95}

ShortPayloads ==
    {Payload(n, 0, 0) : n \in 0..MaxPayloadLen}
    \cup UNION {{Payload(n, i, v) : i \in 1..n, v \in SpecialBytes} :
                n \in 1..MaxPayloadLen}

\* 152 zero bytes have the checksum 0xAA, 170 is the length byte 0xAA,
\* 255 is the longest payload the length byte can state, 256 is one more
LongLengths == {152, 170, MAX_PAYLOAD, MAX_PAYLOAD + 1}

LongPayloads ==
    UNION {{Payload(n, i, SYNC) : i \in {0, 1, 59, n}} : n \in LongLengths}

Payloads == ShortPayloads \cup LongPayloads

\* byte strings for the escaping: every string over three byte values
EscapeBytes == {0, SYNC, 255}

ByteStrings ==
    UNION {[1..n -> EscapeBytes] : n \in 0..MaxEscapeLen}

\* the bytes of test_broken_sync (tests.py, line 75)
BrokenSync == <<1, 2, SYNC, SYNC, SYNC, 1>>

\* checksum bytes other than the right one c: 0xAA and c + 1
WrongChecksums(c) == {SYNC, (c + 1) % 256} \ {c}

\* frames a device may deliver: <<direction, declared length>> \o body
DeviceFrames ==
    { <<>>,                                   \* nothing (a timeout)
      <<RESPONSE, 1>>,                        \* 2 bytes
      <<RESPONSE, 0, SYNC>>,                  \* declared length 0: empty body
      <<RESPONSE, 2, SYNC, CHARGER_TO_HOST>>, \* body of 2 bytes
      <<RESPONSE, 5, SYNC, CHARGER_TO_HOST, 1, 225, 3>>,  \* payload E1, sum 03
      <<RESPONSE, 7, SYNC, CHARGER_TO_HOST, 1, 225, 3, 0, 0, 0>>,
                                              \* length of the whole frame, padded
      <<RESPONSE, 5, SYNC, CHARGER_TO_HOST, 1, 225, 4>>,  \* wrong checksum
      <<3, 5, 0, 7, 1, 225, 3>>,              \* no sync, unknown directions
      <<RESPONSE, 6, SYNC, SYNC, 1, 5, 6, 7>>,            \* direction byte 0xAA
      <<RESPONSE, 5, SYNC, CHARGER_TO_HOST, 2, SYNC, SYNC>>,
                                              \* start of a 2-byte payload AA ..
      <<RESPONSE, 2, 9, 214>>,                \* continuation: 09 and sum D6
      <<RESPONSE, 1, SYNC>>,                  \* continuation: a lone 0xAA
      <<RESPONSE, 60, SYNC, CHARGER_TO_HOST, SYNC, 1>> }
                                              \* length byte a lone 0xAA

(***************************************************************************)
(* Inputs of parse_packet.                                                 *)
(***************************************************************************)
MaxPacketLen == 40      \* packets of every length up to this one
MaxId == 18             \* mode ids of the metrics packets up to this one

\* the opcodes parse_packet tests for, and two it does not (0x00, 0x55)
Opcodes == {1, 3, 225, 241, 193, 201, 253, 223, 247, 249, 251, 229, 0, 85}

\* NUL, 0x02, 'A', and a byte that is not ASCII
FillBytes == {0, 2, 65, 200}

\* n bytes: the opcode, then n - 1 times the byte v
Filled(opcode, n, v) == <<opcode>> \o [k \in 1..(n - 1) |-> v]

FilledPackets ==
    {Filled(opcode, n, v) :
        opcode \in Opcodes, n \in 1..MaxPacketLen, v \in FillBytes}

\* a metrics packet of 26 bytes: channel 1, the three ids, the two
\* temperature bytes, progress 50, the other fields all 0xFF
MetricsPacket(mode_id, chemistry_id, dimensions_id, t, t_internal) ==
    <<223, 1, mode_id, chemistry_id, dimensions_id, t, t_internal, 50>>
    \o [k \in 1..18 |-> 255]

ChemistryIds == 0..10
DimensionsIds == 0..5
TemperatureBytes == {0, 127, 128, 255}

MetricsPackets ==
    {MetricsPacket(m, c, d, 0, 0) :
        m \in 0..MaxId, c \in ChemistryIds, d \in DimensionsIds}
    \cup {MetricsPacket(3, 9, 0, t, ti) :
            t \in TemperatureBytes, ti \in TemperatureBytes}

\* link test responses: 'C4', 'C' NUL '4', a byte that is not ASCII, no
\* name at all; the 4-byte responses of the boot loader and of the app
LinkTestPackets ==
    { <<1, 0, 67, 52, 0, 0, 0, 0, 0, 0>>,
      <<1, 0, 67, 0, 52, 0, 0, 0, 0, 0>>,
      <<1, 0, 67, 52, 0, 0, 0, 0, 0, 200>>,
      <<1, 0, 0, 0, 0, 0, 0, 0, 0, 0>>,
      <<1, 1, 65, 52, 0, 0, 0, 0, 0, 0>>,
      <<1, 145, 0, 0>>,
      <<1, 0, 0, 0>> }

\* what read_packet may hand over: None, no byte at all, or a packet
ParsePackets ==
    {None, << >>} \cup FilledPackets \cup MetricsPackets \cup LinkTestPackets

\* the supported model tags, no tag, and two tags that are not supported
ModelTags == SupportedModels \cup {NoModel, "c4", "auto"}

(***************************************************************************)
(* Inputs of decrypt_firmware_image.                                       *)
(***************************************************************************)
MaxBodyLen == 13        \* encrypted bodies of every length up to this one

\* key and checksum words: 0, 1, 0xFFFFFFFF, 0x5AA55AA5, 0x80000000
KeyWords ==
    { ZeroWord, <<1, 0, 0, 0>>, <<255, 255, 255, 255>>, <<165, 90, 165, 90>>,
      <<0, 0, 0, 128>> }

\* app_storage_offset: 0 and 0x08004000
Offsets == { ZeroWord, <<0, 64, 0, 8>> }

\* a header: encryption_key, file_checksum, app_storage_offset and the five
\* other words
FirmwareHeader(key1, key2, app_storage_offset) ==
    key1 \o key2 \o app_storage_offset \o [k \in 1..20 |-> k]

\* n bytes: v, v + 37, v + 74, ...
Ramp(n, v) == [k \in 1..n |-> (v + 37 * (k - 1)) % 256]

\* fewer bytes than a header has
TruncatedImages == {Ramp(n, 165) : n \in 0..(HEADER_SIZE - 1)}

\* a header and a body of every length, a partial last block included
ShortImages ==
    {FirmwareHeader(key1, key2, ZeroWord) \o Ramp(n, v) :
        key1 \in KeyWords, key2 \in KeyWords, n \in 0..MaxBodyLen,
        v \in {0, 255}}
    \cup {FirmwareHeader(<<1, 0, 0, 0>>, ZeroWord, <<0, 64, 0, 8>>)
            \o Ramp(n, 0) : n \in 0..MaxBodyLen}

\* a decrypted image of n bytes: the word value at offset 40, the 8 bytes
\* name at offset at + 4, and k % 7 at every other offset k
PlainImage(n, value, at, name) ==
    [k \in 1..n |->
        CASE k - 1 \in 40..43 -> value[k - 40]
          [] k - 1 \in (at + 4)..(at + 11) -> name[k - at - 4]
          [] OTHER -> k % 7]

\* model names: 'C4', no name, 'Q8' and a byte that is not ASCII
ModelNames ==
    { <<67, 52, 0, 0, 0, 0, 0, 0>>, <<0, 0, 0, 0, 0, 0, 0, 0>>,
      <<81, 56, 200, 0, 0, 0, 0, 0>> }

\* the words stored at offset 40.  Less app_storage_offset they point at
\* offset 48 or 52, where an image of 80 bytes has 28 bytes left, at 53 or
\* 100, where it has not, far beyond the image, or below its start
StoredPointers ==
    { <<48, 0, 0, 0>>, <<52, 0, 0, 0>>, <<53, 0, 0, 0>>, <<100, 0, 0, 0>>,
      <<48, 64, 0, 8>>, <<52, 64, 0, 8>>, <<53, 64, 0, 8>>,
      <<255, 63, 0, 8>>, <<0, 0, 0, 128>>, <<255, 255, 255, 255>> }

\* images that decrypt to a PlainImage: the cipher is its own inverse
StructuredImages ==
    {FirmwareHeader(<<165, 90, 165, 90>>, <<1, 0, 0, 0>>, offset)
        \o decrypt_loop(PlainImage(n, value, 48, name),
                        <<165, 90, 165, 90>>, <<1, 0, 0, 0>>).output :
        offset \in Offsets, value \in StoredPointers, name \in ModelNames,
        n \in {42, 80}}

FirmwareImages == TruncatedImages \cup ShortImages \cup StructuredImages

(***************************************************************************)
(* Inputs of a session: the chargers, what the caller asks for and what    *)
(* the device answers.                                                     *)
(***************************************************************************)
MaxFailedFrames == 1    \* frames read before a failed read that is followed up
MaxChannels == 2        \* the device has at most this many channels
MaxRounds == 2          \* rounds of display_metrics when count is 0
MaxIterations == 2      \* polls of monitor_state

\* Charger(device, model, mode): the tags a caller may pass
ChargerModels == {"A4", "C4", "C4EVO", "Q8", "ignore", "auto"}
ChargerModes == {"app", "boot loader", "ignore", "auto"}

\* a frame as the device sends it (tests.py, lines 25-30 and 37-41): the
\* sync byte and the escaped packet, the length byte counting the whole
\* frame, zero-padded to 64 bytes
response_frame(payload) ==
    LET inner == <<CHARGER_TO_HOST, Len(payload) % 256>> \o payload
        stream == <<SYNC>> \o __escape_synchronization__(
                                Append(inner, checksum_of(inner)))
    IN  pad_frame(<<RESPONSE, Len(stream) + 2>> \o stream)

\* a device information packet of 31 bytes with the model name at 21
DeviceInformation(name) ==
    <<225>> \o [k \in 1..20 |-> k % 4] \o name
    \o [k \in 1..(10 - Len(name)) |-> 0]

\* a metrics packet of 26 bytes for a channel and its three ids
MetricsOf(channel, ids) ==
    <<223, channel, ids[1], ids[2], ids[3], 20, 30, 50>>
    \o [k \in 1..18 |-> 0]

\* mode, chemistry and dimensions ids a channel may report: one set, and
\* the sets that differ from it in one id
MetricsIds == { <<3, 9, 0>>, <<4, 9, 0>>, <<3, 1, 0>>, <<3, 9, 1>> }

\* ... the sets the second channel reports, and the set of those after it
LaterMetricsIds == { <<3, 9, 0>>, <<4, 9, 0>> }
FurtherMetricsIds == { <<3, 9, 0>> }

\* what a charger answers a command with; a metrics request for a channel
\* it does not have is answered with the opcode alone
AnswerPayloads(command) ==
    CASE command[1] = 0 ->
            { <<1, 1, 67, 52, 0, 0, 0, 0, 0, 0>>,      \* 'C4', app
              <<1, 0, 65, 52, 0, 0, 0, 0, 0, 0>>,      \* 'A4', boot loader
              <<1, 145, 0, 0>> }                       \* boot loader
      [] command[1] = 224 ->
            { DeviceInformation(<<67, 52>>), DeviceInformation(<<88, 89>>),
              <<225, 0>> }                             \* 'C4', 'XY', malformed
      [] command[1] = 222 ->
            (IF command[2] < MaxChannels
             THEN {MetricsOf(command[2], ids) :
                      ids \in CASE command[2] = 0 -> MetricsIds
                                [] command[2] = 1 -> LaterMetricsIds
                                [] OTHER -> FurtherMetricsIds}
             ELSE {})
            \cup { <<223>>, <<223, 0>> }               \* no channel, malformed
      [] command[1] = 192 -> { <<193, 0>> }
      [] command[1] = 200 -> { <<201>> \o [k \in 1..12 |-> k] }
      [] command[1] = 240 -> { <<241, 0>> }
      [] command[1] = 252 -> { <<253, 0>> }
      [] command[1] = 246 -> { <<247, 53, 0>> \o [k \in 1..12 |-> 0] }
      [] command[1] = 248 -> { <<249>> \o [k \in 1..28 |-> k] }
      [] command[1] = 228 -> { <<229>> \o [k \in 1..13 |-> 0] }
      [] OTHER -> { <<85>> }

\* the frames a read may give after the command: an answer, or no byte at
\* all when the read times out
Answers(command) ==
    {response_frame(p) : p \in AnswerPayloads(command)} \cup { << >> }

\* new names for rename_device: none, 'AB', 'ä!', nine letters
NewNames ==
    { << >>, <<65, 66>>, <<228, 33>>, <<65, 66, 67, 68, 69, 70, 71, 72, 73>> }

\* the payload of the packet that follows another in the captured frames
SecondPayloads == { <<225>>, <<SYNC, 2>> }

\* payloads for write_raw_command
RawCommands == { <<222, 1>>, <<172, 1, 2>> }

\* channels, count and period for display_metrics and monitor_state
ChannelLists == { << >>, <<0>>, <<0, 1>>, <<5, 0>> }
Counts == 0..2
NoPeriod == -1          \* Python's None for period
Periods == {NoPeriod, 2}

\* images for verify_firmware: no header, a header alone, an image whose
\* info structure is found, and one whose pointer is negative
VerifyImages ==
    { Ramp(31, 165),
      FirmwareHeader(<<1, 0, 0, 0>>, ZeroWord, ZeroWord),
      FirmwareHeader(<<1, 0, 0, 0>>, ZeroWord, ZeroWord) \o Ramp(8, 0),
      FirmwareHeader(<<1, 0, 0, 0>>, ZeroWord, <<0, 64, 0, 8>>)
        \o Ramp(8, 0) }

(***************************************************************************)
(* The state: the payload handed to the encoder (data) and the checksum    *)
(* byte put on the wire for it; the frames write_to_charger handed to the  *)
(* device; the locals of the running read_packet call (captured_frames is  *)
(* NoFrames when it reads from the device), the frames it has read so far, *)
(* how it ended (exit) and what it returned.                               *)
(***************************************************************************)
VARIABLES data, wire_checksum, device_written, pc, captured_frames, received,
          expected_packet_length, packet_data, exit, result, checksum,
          checksum_from_packet, escaped, unescaped,
          \* the arguments of the parse_packet call, how it ended (parse_exit)
          \* and the dict it returned (record)
          model, packet, parse_exit, record,
          \* the bytes handed to decrypt_firmware_image, the bytes it wrote,
          \* how it ended and the dict it returned (header)
          \* what firmware_decrypt did with it (printed)
          encrypted, output_kind, output, decrypt_exit, header, printed,
          \* what the call of read_packet before this one left behind
          \* (previous), and the payload whose frames follow those of data in
          \* the captured frames (second)
          previous, second,
          \* isdttool.DEBUG_MODE; the charger's model and mode; the session
          \* operation that runs (op), its local variables (locals) and how it
          \* ended (op_exit); the commands written and the read_packet calls
          \* made by the session operations, in order (transport); the calls
          \* of sleep; the calls of func, of the discovery or of the
          \* iteration that compares or compared last; the
          \* device of the Charger ("None" when it was made without one);
          \* the payload of the write_to_charger call that runs or ran last
          DEBUG_MODE, charger_model, charger_mode, op, locals, op_exit,
          transport, sleeps, func_calls, device, command

vars == <<data, wire_checksum, device_written, pc, captured_frames, received,
          expected_packet_length, packet_data, exit, result, checksum,
          checksum_from_packet, escaped, unescaped,
          model, packet, parse_exit, record,
          encrypted, output_kind, output, decrypt_exit, header, printed,
          previous, second,
          DEBUG_MODE, charger_model, charger_mode, op, locals, op_exit,
          transport, sleeps, func_calls, device, command>>

codec_vars == <<data, wire_checksum, device_written, captured_frames, received,
                expected_packet_length, packet_data, exit, result, checksum,
                checksum_from_packet, escaped, unescaped>>

parse_vars == <<model, packet, parse_exit, record>>

firmware_vars ==
    <<encrypted, output_kind, output, decrypt_exit, header, printed>>

call_vars == <<previous, second>>

session_vars ==
    <<DEBUG_MODE, charger_model, charger_mode, op, locals, op_exit, transport,
      sleeps, func_calls, device, command>>

read_vars == <<captured_frames, received, expected_packet_length, packet_data,
               exit, result, checksum, checksum_from_packet>>

Init ==
    /\ data = None
    /\ wire_checksum = NoLength
    /\ device_written = <<>>
    /\ pc = "idle"
    /\ captured_frames = NoFrames
    /\ received = <<>>
    /\ expected_packet_length = NoLength
    /\ packet_data = None
    /\ exit = ""
    /\ result = None
    /\ checksum = NoLength
    /\ checksum_from_packet = NoLength
    /\ escaped = None
    /\ unescaped = None
    /\ model = NoModel
    /\ packet = None
    /\ parse_exit = ""
    /\ record = NoRecord
    /\ encrypted = None
    /\ output_kind = ""
    /\ output = None
    /\ decrypt_exit = ""
    /\ header = NoRecord
    /\ printed = ""
    /\ previous = NoRecord
    /\ second = None
    /\ DEBUG_MODE = FALSE
    /\ charger_model = NoModel
    /\ charger_mode = NoModel
    /\ op = ""
    /\ locals = NoRecord
    /\ op_exit = ""
    /\ transport = << >>
    /\ sleeps = 0
    /\ func_calls = << >>
    /\ device = "hid.device"
    /\ command = None

\* __escape_synchronization__(payload) on a byte string
Escape ==
    /\ pc = "idle"
    /\ \E payload \in ByteStrings :
          /\ data' = payload
          /\ escaped' = __escape_synchronization__(payload)
    /\ pc' = "escaped"
    /\ UNCHANGED <<wire_checksum, device_written, read_vars, unescaped>>
    /\ UNCHANGED <<parse_vars, firmware_vars, call_vars, session_vars>>

\* __unescape_synchronization__ on the escaped string (tests.py: test_escaping)
Unescape ==
    /\ pc = "escaped"
    /\ unescaped' = __unescape_synchronization__(escaped)
    /\ pc' = "unescaped"
    /\ UNCHANGED <<data, wire_checksum, device_written, read_vars, escaped>>
    /\ UNCHANGED <<parse_vars, firmware_vars, call_vars, session_vars>>

\* mutant: a call goes on with what the call before has left
locals_left_behind ==
    [expected_packet_length |-> expected_packet_length,
     packet_data |-> packet_data]

\* the locals of read_packet when it is entered: lines 141-142
locals_at_entry ==
    [expected_packet_length |-> NoLength, packet_data |-> None]

\* __unescape_synchronization__ on a byte string that need not be an
\* escaped one (tests.py: test_broken_sync)
UnescapeBytes ==
    /\ pc = "idle"
    /\ \E payload \in ByteStrings \cup {BrokenSync} :
          /\ escaped' = payload
          /\ unescaped' = __unescape_synchronization__(payload)
    /\ pc' = "unescaped bytes"
    /\ UNCHANGED <<data, wire_checksum, device_written, read_vars>>
    /\ UNCHANGED <<parse_vars, firmware_vars, call_vars, session_vars>>

\* read_packet is entered: lines 141-142
EnterReadPacket(frames) ==
    /\ pc' = "loop"
    /\ captured_frames' = frames
    /\ received' = <<>>
    /\ expected_packet_length' = locals_at_entry.expected_packet_length
    /\ packet_data' = locals_at_entry.packet_data
    /\ UNCHANGED <<device_written, exit, result, checksum, checksum_from_packet,
                   escaped, unescaped>>
    /\ UNCHANGED <<parse_vars, firmware_vars, call_vars, session_vars>>

\* the frames of a payload are generated and handed to read_packet
\* (tests.py: test_protocol_decode_small, test_protocol_decode_long)
RoundTrip ==
    /\ pc = "idle"
    /\ \E p \in Payloads :
          /\ data' = p
          /\ wire_checksum' = checksum_of(inner_packet(p))
          /\ EnterReadPacket(__generate_raw_frames__(p))

\* read_packet is handed the frames of a packet whose checksum byte is wrong
ReadWrongChecksum ==
    /\ pc = "idle"
    /\ \E p \in Payloads :
          \E c \in WrongChecksums(checksum_of(inner_packet(p))) :
             /\ data' = p
             /\ wire_checksum' = c
             /\ EnterReadPacket(frames_of(
                    <<SYNC>> \o __escape_synchronization__(
                                    Append(inner_packet(p), c))))

\* the frames of two payloads, one packet after the other, are handed to
\* read_packet
TwoPackets ==
    /\ pc = "idle"
    /\ \E p \in Payloads, q \in SecondPayloads :
          /\ data' = p
          /\ second' = q
          /\ wire_checksum' = checksum_of(inner_packet(p))
          /\ pc' = "loop"
          /\ captured_frames' = __generate_raw_frames__(p)
                                   \o __generate_raw_frames__(q)
          /\ received' = <<>>
          /\ expected_packet_length' = locals_at_entry.expected_packet_length
          /\ packet_data' = locals_at_entry.packet_data
    /\ UNCHANGED <<device_written, exit, result, checksum,
                   checksum_from_packet, escaped, unescaped, previous>>
    /\ UNCHANGED <<parse_vars, firmware_vars, session_vars>>

\* read_packet is called once more, after a call on the device that raised
\* an OSError or after a call that completed a packet from the frames of two
\* packets; the list of captured frames is the same list
ReadPacketAgain ==
    /\ op = ""
    /\ previous = NoRecord
    /\ \/ /\ pc = "raised"
          /\ exit = "OSError"
          /\ Len(received) <= MaxFailedFrames
       \/ /\ pc = "returned"
          /\ exit = "complete"
          /\ second # None
    /\ previous' = [exit |-> exit, result |-> result, received |-> received,
                    expected_packet_length |-> expected_packet_length,
                    packet_data |-> packet_data]
    /\ pc' = "loop"
    /\ received' = <<>>
    /\ expected_packet_length' = locals_at_entry.expected_packet_length
    /\ packet_data' = locals_at_entry.packet_data
    /\ exit' = ""
    /\ UNCHANGED <<data, wire_checksum, device_written, captured_frames,
                   result, checksum, checksum_from_packet, escaped, unescaped,
                   second>>
    /\ UNCHANGED <<parse_vars, firmware_vars, session_vars>>

\* the device has taken the frames of a command
written(t, a_command) == Append(t, <<"write", a_command>>)

\* mutant: the response is not read
reading_nothing(t) == t

\* read_packet() is called
reading(t) == Append(t, <<"read_packet">>)

\* charger.py, lines 213-214: Charger.write_to_charger(payload) is called
WriteToCharger ==
    /\ pc = "idle"
    /\ \E p \in Payloads :
          /\ data' = p
          /\ command' = p
    /\ op' = "write_to_charger"
    /\ device_written' = << >>
    /\ pc' = "writing"
    /\ UNCHANGED <<wire_checksum, read_vars, escaped, unescaped>>
    /\ UNCHANGED <<parse_vars, firmware_vars, call_vars>>
    /\ UNCHANGED <<DEBUG_MODE, charger_model, charger_mode, locals, op_exit,
                   transport, sleeps, func_calls, device>>

\* charger.py, lines 215-218: the device takes the next frame; after the
\* last one write_to_charger returns, to the operation that called it
WriteFrame ==
    /\ pc = "writing"
    /\ device # "None"
    /\ LET frames == write_to_charger(command)
           k == Len(device_written) + 1
       IN  /\ device_written' = Append(device_written, frames[k])
           /\ pc' = IF k < Len(frames) THEN "writing"
                    ELSE IF op = "write_to_charger" THEN "written"
                    ELSE "requested"
           /\ transport' = IF k < Len(frames) \/ op = "write_to_charger"
                           THEN transport
                           ELSE written(transport, command)
    /\ UNCHANGED <<data, wire_checksum, read_vars, escaped, unescaped>>
    /\ UNCHANGED <<parse_vars, firmware_vars, call_vars>>
    /\ UNCHANGED <<DEBUG_MODE, charger_model, charger_mode, op, locals,
                   op_exit, sleeps, func_calls, device, command>>

\* Charger.read_packet() reading from the device
ReadFromDevice ==
    /\ pc = "idle"
    /\ EnterReadPacket(NoFrames)
    /\ UNCHANGED <<data, wire_checksum>>

\* charger.py, lines 150-155 and 157-158: frame_as_received is assigned
\* the frame the source has delivered, and the frame is logged; the loop
\* has not looked at it yet
Receive(frame_as_received) ==
    /\ received' = Append(received, frame_as_received)
    /\ pc' = "frame"
    /\ UNCHANGED <<data, wire_checksum, device_written,
                   expected_packet_length, packet_data, exit, result,
                   checksum, checksum_from_packet, escaped, unescaped>>
    /\ UNCHANGED <<parse_vars, firmware_vars, call_vars, session_vars>>

\* the frame read last
frame_as_received == received[Len(received)]

\* charger.py, lines 160-190: the rest of the pass of the while loop, on
\* the frame just read
UseFrame ==
    /\ pc = "frame"
    /\ LET r == read_packet_frame(expected_packet_length, packet_data,
                                  frame_as_received)
       IN
        /\ expected_packet_length' = r.expected_packet_length
        /\ packet_data' = r.packet_data
        /\ pc' = CASE r.outcome = "continue" -> "loop"
                   [] r.outcome = "return" -> "returned"
                   [] OTHER -> "raised"
        /\ exit' = CASE r.outcome = "continue" -> exit
                     [] r.outcome = "return" -> "frame too short"
                     [] OTHER -> "IndexError"
        /\ result' = IF r.outcome = "return" THEN r.packet_data ELSE result
    /\ UNCHANGED <<data, wire_checksum, device_written, captured_frames,
                   received, checksum, checksum_from_packet, escaped,
                   unescaped>>
    /\ UNCHANGED <<parse_vars, firmware_vars, call_vars, session_vars>>

\* charger.py, lines 157-158: the frame is popped from the captured frames
ReadCapturedFrame ==
    /\ pc = "loop"
    /\ captured_frames # NoFrames
    /\ captured_frames # <<>>
    /\ loop_continues(expected_packet_length, packet_data)
    /\ Receive(Head(captured_frames))
    /\ captured_frames' = Tail(captured_frames)

\* captured_frames.pop(0) on the empty list
PopFromEmptyList ==
    /\ pc = "loop"
    /\ captured_frames = <<>>
    /\ loop_continues(expected_packet_length, packet_data)
    /\ pc' = "raised"
    /\ exit' = "IndexError"
    /\ UNCHANGED <<data, wire_checksum, device_written, captured_frames,
                   received, expected_packet_length, packet_data, result,
                   checksum, checksum_from_packet, escaped, unescaped>>
    /\ UNCHANGED <<parse_vars, firmware_vars, call_vars, session_vars>>

\* the command written last
pending_command == transport[Len(transport) - 1][2]

\* charger.py, lines 150-155: the frame is read from the device: any frame
\* when read_packet was called alone, an answer to the command in a session
ReadDeviceFrame ==
    /\ pc = "loop"
    /\ captured_frames = NoFrames
    /\ loop_continues(expected_packet_length, packet_data)
    /\ Len(received) < MaxFrames
    /\ \E f \in (IF op = "" THEN DeviceFrames ELSE Answers(pending_command)) :
          Receive(f)
    /\ UNCHANGED captured_frames

\* charger.py, lines 149-154: the read from the device raises an OSError,
\* which read_packet raises again
ReadDeviceError ==
    /\ pc = "loop"
    /\ captured_frames = NoFrames
    /\ loop_continues(expected_packet_length, packet_data)
    /\ pc' = "raised"
    /\ exit' = "OSError"
    /\ UNCHANGED <<data, wire_checksum, device_written, captured_frames,
                   received, expected_packet_length, packet_data, result,
                   checksum, checksum_from_packet, escaped, unescaped>>
    /\ UNCHANGED <<parse_vars, firmware_vars, call_vars, session_vars>>

\* the loop is left: lines 195-205
FinishPacket ==
    /\ pc = "loop"
    /\ ~loop_continues(expected_packet_length, packet_data)
    /\ LET r == read_packet_finish(expected_packet_length, packet_data)
       IN  /\ checksum_from_packet' = r.checksum_from_packet
           /\ checksum' = r.checksum
           /\ result' = r.result
           /\ packet_data' = Slice(packet_data, 0, expected_packet_length + 2)
    /\ pc' = "returned"
    /\ exit' = "complete"
    /\ UNCHANGED <<data, wire_checksum, device_written, captured_frames,
                   received, expected_packet_length, escaped, unescaped>>
    /\ UNCHANGED <<parse_vars, firmware_vars, call_vars, session_vars>>

\* parse_packet(packet, model)
ParsePacket ==
    /\ pc = "idle"
    /\ \E p \in ParsePackets, m \in ModelTags :
          /\ packet' = p
          /\ model' = m
          /\ parse_exit' = parse_packet(p, m).exit
          /\ record' = parse_packet(p, m).result
    /\ pc' = "parsed"
    /\ UNCHANGED <<codec_vars, firmware_vars>>
    /\ UNCHANGED <<call_vars, session_vars>>

\* parse_packet(self.read_packet(), 'ignore'): charger.py, lines 310, 312
ParseReadPacket ==
    /\ pc = "returned"
    /\ op = ""
    /\ packet' = result
    /\ model' = "ignore"
    /\ parse_exit' = parse_packet(result, "ignore").exit
    /\ record' = parse_packet(result, "ignore").result
    /\ pc' = "parsed"
    /\ UNCHANGED <<codec_vars, firmware_vars>>
    /\ UNCHANGED <<call_vars, session_vars>>

\* decrypt_firmware_image(encrypted, output) is run to its end
Decrypt(encrypted_bytes, kind) ==
    LET r == decrypt_firmware_image(encrypted_bytes, kind)
    IN  /\ encrypted' = encrypted_bytes
        /\ output_kind' = kind
        /\ output' = r.output
        /\ decrypt_exit' = r.exit
        /\ header' = r.result

\* decrypt_firmware_image with an output that can be read back: the BytesIO
\* of print_firmware_info and verify_firmware, or a file opened 'w+b'
DecryptFirmwareImage ==
    /\ pc = "idle"
    /\ \E e \in FirmwareImages, kind \in {"BytesIO", "w+b"} : Decrypt(e, kind)
    /\ pc' = "decrypted"
    /\ UNCHANGED <<codec_vars, parse_vars, printed>>
    /\ UNCHANGED <<call_vars, session_vars>>

\* cli_tool.py firmware_decrypt: the output is a file opened 'wb'
FirmwareDecrypt ==
    /\ pc = "idle"
    /\ \E e \in FirmwareImages :
          /\ Decrypt(e, "wb")
          /\ printed' = firmware_decrypt_prints(
                            decrypt_firmware_image(e, "wb").result)
    /\ pc' = "decrypted"
    /\ UNCHANGED <<codec_vars, parse_vars>>
    /\ UNCHANGED <<call_vars, session_vars>>

(***************************************************************************)
(* A session: a Charger is made and one operation of actions.py is run on  *)
(* it.  An operation is called, runs up to its next call of                *)
(* write_to_charger in one step, hands the frames to the device one by one *)
(* and then calls read_packet; the call reads from the device frame by     *)
(* frame, each frame read in one step and used in the next, and the        *)
(* operation goes on when the call has returned or raised.  What an        *)
(* operation puts out and each call of func is a step of its own.  A       *)
(* KeyboardInterrupt may arrive between any two of these steps.            *)
(***************************************************************************)
\* charger.py, lines 213-214: write_to_charger is called with a command
Request(a_command) ==
    /\ command' = a_command
    /\ device_written' = << >>
    /\ pc' = "writing"
    /\ UNCHANGED <<data, wire_checksum, read_vars, escaped, unescaped>>
    /\ UNCHANGED <<parse_vars, firmware_vars, call_vars>>
    /\ UNCHANGED <<op_exit, transport>>

\* ... by the operation that runs
Continues(a_command) ==
    /\ Request(a_command)
    /\ UNCHANGED <<DEBUG_MODE, charger_model, charger_mode, device, op>>

\* the operation returns, or raises the exception how
Ends(how) ==
    /\ pc' = "done"
    /\ op_exit' = how
    /\ UNCHANGED <<codec_vars, parse_vars, firmware_vars, call_vars>>
    /\ UNCHANGED <<DEBUG_MODE, charger_model, charger_mode, device, op,
                   transport, command>>

\* the operation goes on at the position at without a request
Goes(at) ==
    /\ pc' = at
    /\ UNCHANGED <<codec_vars, parse_vars, firmware_vars, call_vars>>
    /\ UNCHANGED <<DEBUG_MODE, charger_model, charger_mode, device, op,
                   op_exit, transport, command>>

\* charger.py, line 218: the write to the device raises an OSError, or an
\* AttributeError when the Charger was made without a device
WriteDeviceError ==
    /\ pc = "writing"
    /\ Ends(IF device = "None" THEN "AttributeError" ELSE "OSError")
    /\ UNCHANGED <<locals, sleeps, func_calls>>

\* charger.py, lines 141-142: the command written, the operation calls
\* read_packet, which starts to read from the device
ReadResponse ==
    /\ op # ""
    /\ pc = "requested"
    /\ transport' = reading(transport)
    /\ pc' = "loop"
    /\ captured_frames' = NoFrames
    /\ received' = << >>
    /\ expected_packet_length' = locals_at_entry.expected_packet_length
    /\ packet_data' = locals_at_entry.packet_data
    /\ exit' = ""
    /\ UNCHANGED <<data, wire_checksum, device_written, result, checksum,
                   checksum_from_packet, escaped, unescaped>>
    /\ UNCHANGED <<parse_vars, firmware_vars, call_vars>>
    /\ UNCHANGED <<DEBUG_MODE, charger_model, charger_mode, device, op,
                   locals, op_exit, sleeps, func_calls, command>>

\* isdttool/__init__.py, lines 20-27, called at cli_tool.py, line 285:
\* set_debug(enabled), before a Charger is made
set_debug ==
    /\ pc = "idle"
    /\ \E enabled \in BOOLEAN : DEBUG_MODE' = enabled
    /\ pc' = "debug set"
    /\ UNCHANGED <<codec_vars, parse_vars, firmware_vars, call_vars>>
    /\ UNCHANGED <<charger_model, charger_mode, op, locals, op_exit,
                   transport, sleeps, func_calls, device, command>>

\* charger.py, lines 117-130: a Charger is made, with a device or without,
\* in the debug mode as it is; for a tag 'auto' model_and_mode is called,
\* or a ValueError raised when there is no device
NewCharger ==
    \/ /\ pc \in {"idle", "debug set"}
       /\ \E a_model \in ChargerModels, a_mode \in ChargerModes,
             a_device \in {"hid.device", "None"} :
             /\ charger_model' = a_model
             /\ charger_mode' = a_mode
             /\ device' = a_device
             /\ IF a_model = "auto" \/ a_mode = "auto"
                THEN /\ op' = IF a_device = "None" THEN "__init__"
                              ELSE "model_and_mode"
                     /\ locals' = [at |-> "link test",
                                   link_test_result |-> NoRecord]
                     /\ pc' = "called"
                ELSE /\ op' = ""
                     /\ locals' = NoRecord
                     /\ pc' = "ready"
       /\ UNCHANGED <<codec_vars, parse_vars, firmware_vars, call_vars>>
       /\ UNCHANGED <<DEBUG_MODE, transport, op_exit, sleeps, func_calls,
                      command>>
    \/ /\ op = "__init__"
       /\ pc = "called"
       /\ Ends("ValueError")
       /\ UNCHANGED <<locals, sleeps, func_calls>>

\* charger.py, lines 309-314 and 125-128: model_and_mode writes the link
\* test, and goes on with a response
ModelAndMode ==
    /\ op = "model_and_mode"
    /\ pc \in {"called", "returned", "raised"}
    /\ LET parsed == parse_packet(result, "ignore")
       IN  CASE pc = "called" ->
                    Continues(link_test_command) /\ UNCHANGED locals
             [] pc = "raised" ->
                    Ends(exit) /\ UNCHANGED locals
             [] pc = "returned" /\ parsed.exit # "return" ->
                    Ends(parsed.exit) /\ UNCHANGED locals
             [] pc = "returned" /\ parsed.exit = "return"
                  /\ locals.at = "link test" ->
                    /\ locals' = [at |-> "version",
                                  link_test_result |-> parsed.result]
                    /\ Continues(version_command)
             [] OTHER ->
                    IF \/ "model name" \notin DOMAIN parsed.result
                       \/ "inside boot loader"
                              \notin DOMAIN locals.link_test_result
                    THEN Ends("KeyError") /\ UNCHANGED locals
                    ELSE /\ charger_model' =
                              IF charger_model = "auto"
                              THEN str_of(parsed.result["model name"])
                              ELSE charger_model
                         /\ charger_mode' =
                              IF charger_mode # "auto" THEN charger_mode
                              ELSE IF locals.link_test_result
                                            ["inside boot loader"]
                                   THEN "boot loader" ELSE "app"
                         /\ op' = ""
                         /\ locals' = NoRecord
                         /\ pc' = "ready"
                         /\ UNCHANGED <<codec_vars, parse_vars, firmware_vars,
                                        call_vars>>
                         /\ UNCHANGED <<DEBUG_MODE, device, op_exit,
                                        transport, command>>
    /\ UNCHANGED <<sleeps, func_calls>>

\* the operations that write one command and print its result
SimpleOperations ==
    {"display_link_test", "display_version", "rename_device",
     "read_serial_number", "reboot_to_boot_loader", "reboot_to_app",
     "display_sensors", "display_channel_sensors",
     "display_channel_voltages", "write_raw_command"}

\* what the caller may hand to an operation besides the charger
Arguments(operation) ==
    CASE operation = "rename_device" -> NewNames
      [] operation = "display_channel_sensors" -> {<<0>>, <<1>>}
      [] operation = "write_raw_command" -> RawCommands
      [] OTHER -> { << >> }

\* the command an operation writes
command_of(operation, argument) ==
    CASE operation = "display_link_test" -> link_test_command
      [] operation = "display_version" -> version_command
      [] operation = "rename_device" -> rename_device_command(argument)
      [] operation = "read_serial_number" -> get_mcu_serial_number_command
      [] operation = "reboot_to_boot_loader" -> boot_to_loader_command
      [] operation = "reboot_to_app" -> boot_to_app_command
      [] operation = "display_sensors" -> read_some_sensors_command
      [] operation = "display_channel_sensors" ->
            channel_sensors_command(argument[1])
      [] operation = "display_channel_voltages" -> channel_voltages_command
      [] operation = "write_raw_command" -> argument

\* the operation may go on with this charger
compatible(operation) ==
    operation \in GuardedActions
        => assure_compatibility(charger_model, charger_mode,
                                configurations(operation), DEBUG_MODE)

\* the chargers the loops of display_metrics and monitor_state are followed
\* on
LoopingChargers == { <<"C4", "app">>, <<"ignore", "ignore">> }

\* ... made with the tags given and the debug mode off
followed ==
    /\ ~DEBUG_MODE
    /\ transport = << >>
    /\ <<charger_model, charger_mode>> \in LoopingChargers

\* the chargers monitor_state is followed on
MonitoredChargers == { <<"C4", "app">> }

\* an operation of actions.py is called on the charger, with its arguments
Call ==
    /\ pc = "ready"
    /\ \/ \E operation \in SimpleOperations, output_mode \in OutputModes :
             \E argument \in Arguments(operation) :
                /\ op' = operation
                /\ locals' = [output_mode |-> output_mode,
                              argument |-> argument]
       \/ \E file \in VerifyImages, output_mode \in OutputModes :
             /\ op' = "verify_firmware"
             /\ locals' = [output_mode |-> output_mode, file |-> file]
       \/ /\ compatible("display_metrics") => followed
          /\ \E count \in Counts, channels \in ChannelLists,
                output_mode \in OutputModes :
                /\ op' = "display_metrics"
                /\ locals' = [count |-> count, channels |-> channels,
                              output_mode |-> output_mode]
       \/ /\ followed
          /\ <<charger_model, charger_mode>> \in MonitoredChargers
          /\ \E period \in Periods :
                /\ op' = "monitor_state"
                /\ locals' = [state |-> << >>, max_channel |-> NoLength,
                              i |-> 0, current_iteration |-> 0,
                              current_state |-> << >>, period |-> period]
    /\ pc' = "called"
    /\ UNCHANGED <<codec_vars, parse_vars, firmware_vars, call_vars>>
    /\ UNCHANGED <<DEBUG_MODE, charger_model, charger_mode, device, op_exit,
                   transport, command, sleeps, func_calls>>

\* actions.py, lines 79-117, 174-199 and 227-294: the compatibility is
\* assured and write_to_charger called with the command
SimpleOperation ==
    /\ op \in SimpleOperations
    /\ pc = "called"
    /\ IF compatible(op)
       THEN Continues(command_of(op, locals.argument))
       ELSE Ends("return")
    /\ UNCHANGED <<locals, sleeps, func_calls>>

\* actions.py, lines 210-224: the image is decrypted into a BytesIO and the
\* verification requested when its header could be read
VerifyFirmware ==
    /\ op = "verify_firmware"
    /\ pc = "called"
    /\ LET decrypted == decrypt_firmware_image(locals.file, "BytesIO")
       IN  IF /\ compatible("verify_firmware")
              /\ decrypted.exit = "return"
              /\ {"app_storage_offset", "app_size",
                  "calculated_checksum"} \subseteq DOMAIN decrypted.result
           THEN Continues(verify_firmware_command(
                              decrypted.result["app_storage_offset"],
                              decrypted.result["app_size"],
                              decrypted.result["calculated_checksum"]))
           ELSE Ends(IF compatible("verify_firmware")
                     THEN decrypted.exit ELSE "return")
    /\ UNCHANGED <<locals, sleeps, func_calls>>

\* actions.py, lines 57-76: print_simple_result after read_packet
PrintSimpleResult ==
    /\ op \in SimpleOperations \cup {"verify_firmware"}
    /\ pc \in {"returned", "raised"}
    /\ Ends(IF pc = "raised" THEN exit
            ELSE print_simple_result_exit(result, charger_model,
                                          locals.output_mode))
    /\ UNCHANGED <<locals, sleeps, func_calls>>

\* actions.py, lines 165-166: whether display_metrics sleeps after the round
\* that made step the number of rounds
sleeps_after(count, step) == count = 0 \/ count - step # 0

\* actions.py, lines 130-136: display_metrics reaches its loop
DisplayMetrics ==
    /\ op = "display_metrics"
    /\ pc = "called"
    /\ IF compatible("display_metrics")
       THEN /\ locals' = [count |-> locals.count,
                          channels |-> locals.channels,
                          output_mode |-> locals.output_mode, step |-> 0,
                          i |-> 0, fieldnames |-> NoFields,
                          interrupted |-> FALSE]
            /\ Goes("metrics")
       ELSE /\ UNCHANGED locals
            /\ Ends("return")
    /\ UNCHANGED <<sleeps, func_calls>>

\* actions.py, lines 139-143 and 165-166: the test of the loop, and a round
\* up to its first request (a round without channels up to its sleep)
DisplayMetricsRound ==
    /\ op = "display_metrics"
    /\ pc = "metrics"
    /\ locals.count = 0 => locals.step < MaxRounds
    /\ IF locals.count = 0 \/ locals.step < locals.count
       THEN IF locals.channels = << >>
            THEN /\ locals' = [locals EXCEPT !.step = @ + 1]
                 /\ sleeps' = IF sleeps_after(locals.count, locals.step + 1)
                              THEN sleeps + 1 ELSE sleeps
                 /\ Goes("metrics")
            ELSE /\ locals' = [locals EXCEPT !.step = @ + 1, !.i = 1]
                 /\ Continues(metrics_command(locals.channels[1]))
                 /\ UNCHANGED sleeps
       ELSE /\ Goes("after loop")
            /\ UNCHANGED <<locals, sleeps>>
    /\ UNCHANGED func_calls

\* actions.py, lines 170-171: after the loop the list of the json mode is
\* printed, and display_metrics returns
DisplayMetricsPrints ==
    /\ op = "display_metrics"
    /\ pc = "after loop"
    /\ Ends("return")
    /\ UNCHANGED <<locals, sleeps, func_calls>>

\* actions.py, lines 145-163: the result of a channel is put out; the csv
\* mode makes its writer from the keys of the first result
DisplayMetricsResult ==
    /\ op = "display_metrics"
    /\ pc \in {"returned", "raised"}
    /\ IF pc = "raised"
       THEN Ends(exit) /\ UNCHANGED locals
       ELSE LET out == display_metrics_output(result, charger_model,
                                              locals.output_mode,
                                              locals.fieldnames)
            IN  /\ locals' = [locals EXCEPT !.fieldnames = out.fieldnames]
                /\ IF out.exit # "return" THEN Ends(out.exit)
                                          ELSE Goes("printed")
    /\ UNCHANGED <<sleeps, func_calls>>

\* actions.py, lines 142-143 and 165-166: after the output the next channel
\* is requested, or the round ends and the interval is slept
DisplayMetricsNext ==
    /\ op = "display_metrics"
    /\ pc = "printed"
    /\ IF locals.i < Len(locals.channels)
       THEN /\ locals' = [locals EXCEPT !.i = @ + 1]
            /\ Continues(metrics_command(locals.channels[locals.i + 1]))
            /\ UNCHANGED sleeps
       ELSE /\ sleeps' = IF sleeps_after(locals.count, locals.step)
                         THEN sleeps + 1 ELSE sleeps
            /\ Goes("metrics")
            /\ UNCHANGED locals
    /\ UNCHANGED func_calls

\* a KeyboardInterrupt arrives while an operation runs: inside its try
\* display_metrics leaves the loop (actions.py, lines 167-168); anywhere
\* else, and in any other operation, it is raised to the caller
KeyboardInterrupt ==
    /\ op # ""
    /\ pc \in {"called", "writing", "requested", "loop", "frame", "returned",
               "printed", "metrics", "func", "monitoring", "after loop"}
    /\ IF op = "display_metrics" /\ pc \notin {"called", "after loop"}
       THEN /\ locals' = [locals EXCEPT !.interrupted = TRUE]
            /\ Goes("after loop")
       ELSE /\ UNCHANGED locals
            /\ Ends("KeyboardInterrupt")
    /\ UNCHANGED <<sleeps, func_calls>>

\* a call of func
called(last_state, event) == [last_state |-> last_state, event |-> event]

\* actions.py, lines 346-358: one pair of the comparison; the calls of func
\* and what has become of the dict of current_state
compare(last, current, current_iteration) ==
    LET c0 == ("_iteration" :> current_iteration) @@ current
        differs(key) == last[key] # c0[key]
        known(key) == key \in DOMAIN last /\ key \in DOMAIN c0
        c1 == IF differs("mode id")
              THEN ("_reason" :> "mode id") @@ c0 ELSE c0
        calls1 == IF differs("mode id")
                  THEN << called(last, c1) >> ELSE << >>
        c2 == IF differs("chemistry id")
              THEN ("_reason" :> "chemistry id") @@ c1 ELSE c1
        calls2 == IF differs("chemistry id")
                  THEN Append(calls1, called(last, c2)) ELSE calls1
        c3 == IF differs("dimensions id")
              THEN ("_reason" :> "dimensions id") @@ c2 ELSE c2
        calls3 == IF differs("dimensions id")
                  THEN Append(calls2, called(last, c3)) ELSE calls2
    IN  CASE ~known("mode id") ->
                [exit |-> "KeyError", calls |-> << >>, current |-> c0]
          [] known("mode id") /\ ~known("chemistry id") ->
                [exit |-> "KeyError", calls |-> calls1, current |-> c1]
          [] known("mode id") /\ known("chemistry id")
               /\ ~known("dimensions id") ->
                [exit |-> "KeyError", calls |-> calls2, current |-> c2]
          [] OTHER ->
                [exit |-> "return", calls |-> calls3, current |-> c3]

\* actions.py, lines 340-343: the periodic calls
periodic(current_state, current_iteration, period) ==
    IF period # NoPeriod /\ current_iteration % period = 0
    THEN [k \in 1..Len(current_state) |->
             ("_reason" :> "periodic") @@ current_state[k]]
    ELSE current_state

\* actions.py, lines 345-358: the comparison from the pair k on
RECURSIVE compare_from(_, _, _, _)
compare_from(k, state, current_state, current_iteration) ==
    IF k > Len(state) \/ k > Len(current_state)
    THEN [exit |-> "return", calls |-> << >>, current_state |-> current_state]
    ELSE LET one == compare(state[k], current_state[k], current_iteration)
             now == [current_state EXCEPT ![k] = one.current]
             rest == compare_from(k + 1, state, now, current_iteration)
         IN  IF one.exit # "return"
             THEN [exit |-> one.exit, calls |-> one.calls,
                   current_state |-> now]
             ELSE [exit |-> rest.exit, calls |-> one.calls \o rest.calls,
                   current_state |-> rest.current_state]

\* actions.py, lines 340-358: the calls of func of an iteration
iteration_calls(state, current_state, current_iteration, period) ==
    LET due == period # NoPeriod /\ current_iteration % period = 0
        marked == periodic(current_state, current_iteration, period)
        told == IF due
                THEN [k \in 1..Len(marked) |-> called(NoRecord, marked[k])]
                ELSE << >>
        compared == compare_from(1, state, marked, current_iteration)
    IN  [exit |-> compared.exit, calls |-> told \o compared.calls,
         current_state |-> compared.current_state]

\* a dict of current_state as parse_packet has returned it
unmarked(c) == [key \in DOMAIN c \ {"_reason", "_iteration"} |-> c[key]]

\* actions.py, lines 340-343: the periodic calls, each with what
\* current_state is while it is made
periodic_trace(current_state, current_iteration, period) ==
    IF period # NoPeriod /\ current_iteration % period = 0
    THEN [k \in 1..Len(current_state) |->
             [call |-> called(NoRecord,
                              ("_reason" :> "periodic") @@ current_state[k]),
              current_state |->
                  [j \in 1..Len(current_state) |->
                      IF j <= k
                      THEN ("_reason" :> "periodic") @@ current_state[j]
                      ELSE current_state[j]]]]
    ELSE << >>

\* actions.py, lines 345-358: the calls of the comparison from the pair k
\* on, each with what current_state is while it is made
RECURSIVE trace_from(_, _, _, _)
trace_from(k, state, current_state, current_iteration) ==
    IF k > Len(state) \/ k > Len(current_state)
    THEN << >>
    ELSE LET one == compare(state[k], current_state[k], current_iteration)
             made == [m \in 1..Len(one.calls) |->
                         [call |-> one.calls[m],
                          current_state |->
                              [current_state EXCEPT
                                  ![k] = one.calls[m].event]]]
             now == [current_state EXCEPT ![k] = one.current]
         IN  IF one.exit # "return"
             THEN made
             ELSE made \o trace_from(k + 1, state, now, current_iteration)

\* actions.py, lines 340-358: the calls of func of an iteration in their
\* order, each with what current_state is while it is made
iteration_trace(state, current_state, current_iteration, period) ==
    periodic_trace(current_state, current_iteration, period)
        \o trace_from(1, state,
                      periodic(current_state, current_iteration, period),
                      current_iteration)

\* actions.py, lines 311-317: monitor_state asks for channel 0
MonitorState ==
    /\ op = "monitor_state"
    /\ pc = "called"
    /\ Continues(metrics_command(0))
    /\ UNCHANGED <<locals, sleeps, func_calls>>

\* actions.py, lines 316-328: an answer while the channels are discovered;
\* func is called for a channel that exists, and for 'no channels'
MonitorStateDiscovers ==
    /\ op = "monitor_state"
    /\ locals.current_iteration = 0
    /\ pc \in {"returned", "raised"}
    /\ LET c_state == parse_packet(result, charger_model)
       IN  CASE pc = "raised" ->
                    Ends(exit) /\ UNCHANGED <<locals, func_calls>>
             [] pc = "returned" /\ c_state.exit # "return" ->
                    Ends(c_state.exit) /\ UNCHANGED <<locals, func_calls>>
             [] pc = "returned" /\ c_state.exit = "return"
                  /\ "_channel exists" \notin DOMAIN c_state.result ->
                    Ends("KeyError") /\ UNCHANGED <<locals, func_calls>>
             [] pc = "returned" /\ c_state.exit = "return"
                  /\ "_channel exists" \in DOMAIN c_state.result
                  /\ c_state.result["_channel exists"] ->
                    /\ func_calls' = Append(func_calls,
                          called(NoRecord,
                                 c_state.result
                                   @@ ("_reason" :> "channel id")
                                   @@ ("_channel" :> locals.i)))
                    /\ locals' = [locals EXCEPT
                                     !.max_channel = locals.i,
                                     !.state = Append(@, c_state.result)]
                    /\ Goes("func")
             [] OTHER ->
                    IF locals.max_channel = NoLength
                    THEN /\ func_calls' =
                              Append(func_calls,
                                     called(NoRecord,
                                            "_reason" :> "no channels"))
                         /\ Goes("func")
                         /\ UNCHANGED locals
                    ELSE /\ Goes("monitoring")
                         /\ UNCHANGED <<locals, func_calls>>
    /\ UNCHANGED sleeps

\* actions.py, lines 332-338: an iteration begins and asks for channel 0
MonitorStatePolls ==
    /\ op = "monitor_state"
    /\ pc = "monitoring"
    /\ locals.current_iteration < MaxIterations
    /\ locals' = [locals EXCEPT !.current_iteration = @ + 1,
                                !.current_state = << >>, !.i = 0]
    /\ Continues(metrics_command(0))
    /\ UNCHANGED <<sleeps, func_calls>>

\* actions.py, lines 345-361: no call of func is left in the iteration;
\* the comparison has raised a KeyError, or the state is replaced and the
\* interval slept
IterationEnds(calls) ==
    IF calls.exit # "return"
    THEN /\ locals' = [locals EXCEPT !.current_state = calls.current_state]
         /\ Ends(calls.exit)
         /\ UNCHANGED sleeps
    ELSE /\ locals' = [locals EXCEPT !.state = calls.current_state,
                                     !.current_state = calls.current_state]
         /\ sleeps' = sleeps + 1
         /\ Goes("monitoring")

\* actions.py, lines 336-358: an answer of an iteration; after the last one
\* the iteration goes on to its first call of func, or ends without one
MonitorStatePolled ==
    /\ op = "monitor_state"
    /\ locals.current_iteration > 0
    /\ pc \in {"returned", "raised"}
    /\ LET parsed == parse_packet(result, charger_model)
           polled == Append(locals.current_state, parsed.result)
           trace == iteration_trace(locals.state, polled,
                                    locals.current_iteration, locals.period)
           calls == iteration_calls(locals.state, polled,
                                    locals.current_iteration, locals.period)
       IN  CASE pc = "raised" ->
                    Ends(exit) /\ UNCHANGED <<locals, func_calls, sleeps>>
             [] pc = "returned" /\ parsed.exit # "return" ->
                    Ends(parsed.exit)
                       /\ UNCHANGED <<locals, func_calls, sleeps>>
             [] pc = "returned" /\ parsed.exit = "return"
                  /\ locals.i < locals.max_channel ->
                    /\ locals' = [locals EXCEPT !.current_state = polled,
                                                !.i = @ + 1]
                    /\ Continues(metrics_command(locals.i + 1))
                    /\ UNCHANGED <<func_calls, sleeps>>
             [] OTHER ->
                    IF trace # << >>
                    THEN /\ func_calls' = << trace[1].call >>
                         /\ locals' = [locals EXCEPT !.current_state =
                                                   trace[1].current_state]
                         /\ Goes("func")
                         /\ UNCHANGED sleeps
                    ELSE /\ func_calls' = << >>
                         /\ IterationEnds(calls)

\* func returns: the discovery asks for the next channel, or monitor_state
\* returns after 'no channels'; an iteration goes on to its next call of
\* func (actions.py, lines 340-358), or ends
FuncReturns ==
    /\ op = "monitor_state"
    /\ pc = "func"
    /\ IF locals.current_iteration = 0
       THEN /\ IF locals.max_channel = NoLength
               THEN /\ Ends("return")
                    /\ UNCHANGED locals
               ELSE /\ locals' = [locals EXCEPT !.i = @ + 1]
                    /\ IF locals.i + 1 < 256
                       THEN Continues(metrics_command(locals.i + 1))
                       ELSE Goes("monitoring")
            /\ UNCHANGED <<func_calls, sleeps>>
       ELSE LET polled == [k \in 1..Len(locals.current_state) |->
                              unmarked(locals.current_state[k])]
                trace == iteration_trace(locals.state, polled,
                                         locals.current_iteration,
                                         locals.period)
                calls == iteration_calls(locals.state, polled,
                                         locals.current_iteration,
                                         locals.period)
                n == Len(func_calls)
            IN  IF n < Len(trace)
                THEN /\ func_calls' = Append(func_calls, trace[n + 1].call)
                     /\ locals' = [locals EXCEPT !.current_state =
                                               trace[n + 1].current_state]
                     /\ Goes("func")
                     /\ UNCHANGED sleeps
                ELSE /\ UNCHANGED func_calls
                     /\ IterationEnds(calls)

\* func raises an exception, which monitor_state does not catch
FuncRaises ==
    /\ op = "monitor_state"
    /\ pc = "func"
    /\ Ends("Exception")
    /\ UNCHANGED <<locals, sleeps, func_calls>>

Next ==
    \/ Escape
    \/ Unescape
    \/ UnescapeBytes
    \/ RoundTrip
    \/ ReadWrongChecksum
    \/ WriteToCharger
    \/ WriteFrame
    \/ WriteDeviceError
    \/ ReadFromDevice
    \/ ReadCapturedFrame
    \/ PopFromEmptyList
    \/ ReadDeviceFrame
    \/ UseFrame
    \/ ReadDeviceError
    \/ TwoPackets
    \/ ReadPacketAgain
    \/ FinishPacket
    \/ ParsePacket
    \/ ParseReadPacket
    \/ DecryptFirmwareImage
    \/ FirmwareDecrypt
    \/ set_debug
    \/ NewCharger
    \/ ModelAndMode
    \/ Call
    \/ SimpleOperation
    \/ VerifyFirmware
    \/ ReadResponse
    \/ PrintSimpleResult
    \/ DisplayMetrics
    \/ DisplayMetricsRound
    \/ DisplayMetricsPrints
    \/ DisplayMetricsResult
    \/ DisplayMetricsNext
    \/ KeyboardInterrupt
    \/ MonitorState
    \/ MonitorStateDiscovers
    \/ MonitorStatePolls
    \/ MonitorStatePolled
    \/ FuncReturns
    \/ FuncRaises

Spec == Init /\ [][Next]_vars

(***************************************************************************)
(* Notions the claims are stated with.                                     *)
(***************************************************************************)
\* the read_packet call has ended
Ended == pc \in {"returned", "raised"}

\* read_packet was handed exactly the frames generated for data
FedGeneratedFrames ==
    /\ data # None
    /\ captured_frames # NoFrames
    /\ received \o captured_frames = __generate_raw_frames__(data)

\* the bytes s[lo..hi] added up, as an unbounded integer
RECURSIVE SumOf(_, _, _)
SumOf(s, lo, hi) ==
    IF lo > hi THEN 0
    ELSE IF lo = hi THEN s[lo]
    ELSE SumOf(s, lo, (lo + hi) \div 2) + SumOf(s, (lo + hi) \div 2 + 1, hi)

\* the number of 0xAA bytes among s[1..j]
SyncsUpTo(s, j) == Cardinality({k \in 1..j : s[k] = SYNC})

\* e is s with every 0xAA doubled and nothing else changed
IsEscapedFormOf(e, s) ==
    /\ Len(e) = Len(s) + SyncsUpTo(s, Len(s))
    /\ \A j \in 1..Len(s) :
          LET at == j + SyncsUpTo(s, j - 1)
          IN  /\ e[at] = s[j]
              /\ s[j] = SYNC => e[at + 1] = SYNC

\* the bodies of frames, each as long as its byte 1 says, one after another
RECURSIVE BodiesOf(_, _)
BodiesOf(frames, k) ==
    IF k > Len(frames) THEN <<>>
    ELSE SubSeq(frames[k], 3, 2 + frames[k][2]) \o BodiesOf(frames, k + 1)

\* C1: for every payload of at most 255 bytes, read_packet fed the frames
\* generated for it, in order, returns exactly that payload.
C1_FrameRoundTrip ==
    (FedGeneratedFrames /\ Len(data) <= MAX_PAYLOAD /\ Ended)
        => (exit = "complete" /\ result = data)

\* C2: when the sync-prefixed escaped stream of a payload is at most 62
\* bytes long, exactly one frame is generated for it and read_packet on that
\* frame returns exactly the payload.
C2_SingleFrameRoundTrip ==
    (FedGeneratedFrames /\ Len(__preprocess_payload__(data)) <= CHUNK_SIZE)
        => /\ Len(received \o captured_frames) = 1
           /\ Ended => /\ exit = "complete"
                       /\ result = data
                       /\ Len(received) = 1

\* a single-frame round trip has ended whose stream fills the frame and
\* holds an escaped 0xAA
C2_Witness ==
    /\ FedGeneratedFrames
    /\ Len(__preprocess_payload__(data)) = CHUNK_SIZE
    /\ \E k \in 1..Len(data) : data[k] = SYNC
    /\ pc = "returned"
    /\ result = data

\* C3: unescaping the escaped form of any byte string gives the string back.
C3_EscapeRoundTrip ==
    pc = "unescaped" => unescaped = data

\* a string with two adjacent 0xAA bytes has gone through both steps
C3_Witness ==
    /\ pc = "unescaped"
    /\ \E k \in 1..(Len(data) - 1) : data[k] = SYNC /\ data[k + 1] = SYNC
    /\ Len(escaped) = Len(data) + SyncsUpTo(data, Len(data))
    /\ unescaped = data

\* C4: read_packet on the device raises no error but the transport error
\* of a read that delivers no frame: as long as every frame is delivered,
\* whatever the frames look like, the call does not fail.
C4_AnomaliesNeverRaise ==
    (captured_frames = NoFrames /\ pc = "raised") => exit = "OSError"

\* C5: a complete packet with a wrong checksum byte is read without error
\* and yields the payload the same packet yields with the right checksum.
C5_ChecksumTolerance ==
    (/\ data # None
     /\ wire_checksum # NoLength
     /\ wire_checksum # checksum_of(inner_packet(data))
     /\ read_packet(__generate_raw_frames__(data)).exit = "complete"
     /\ Ended)
        => /\ exit = "complete"
           /\ result = read_packet(__generate_raw_frames__(data)).result

\* what read_packet has accumulated from the frames fs, all of 3 bytes or
\* more: None from no frame, else the first body unescaped from its byte 1
\* on, followed by the other bodies unescaped
RECURSIVE UnescapedBodies(_, _)
UnescapedBodies(fs, k) ==
    IF k > Len(fs) THEN <<>>
    ELSE __unescape_synchronization__(frame_body_of(fs[k]))
         \o UnescapedBodies(fs, k + 1)

AccumulatedFrom(fs) ==
    IF fs = <<>> THEN None
    ELSE __unescape_synchronization__(SliceFrom(frame_body_of(fs[1]), 1))
         \o UnescapedBodies(fs, 2)

\* read_packet goes on with the frame it has read
FrameUsed == pc = "frame" /\ pc' \in {"loop", "returned", "raised"}

\* C6: a frame of fewer than 3 bytes, first or later, ends the call: when
\* read_packet goes on with the frame it returns what the earlier frames
\* accumulated, without error, and nothing is read between the frame and
\* the return or after it.
C6_ShortFrameEndsRead ==
    /\ [](exit = "frame too short"
            => /\ pc \in {"returned", "parsed", "done", "after loop"}
               /\ Len(received[Len(received)]) < MIN_FRAME
               /\ \A k \in 1..(Len(received) - 1) :
                     Len(received[k]) >= MIN_FRAME
               /\ result = AccumulatedFrom(
                               SubSeq(received, 1, Len(received) - 1)))
    /\ [][(FrameUsed /\ Len(frame_as_received) < MIN_FRAME)
             => /\ pc' = "returned"
                /\ exit' = "frame too short"
                /\ result' = packet_data]_vars
    /\ [][pc = "frame"
             => received' = received /\ captured_frames' = captured_frames]_vars
    /\ [][exit = "frame too short"
             => received' = received /\ captured_frames' = captured_frames]_vars

\* a short frame has ended a call that had accumulated bytes before
C6_Witness ==
    /\ exit = "frame too short"
    /\ Len(received) >= 2
    /\ result # None
    /\ Len(result) >= 2

\* the body of the first frame read
FirstBody == frame_body_of(received[1])

\* C7 as stated: a completed packet returns exactly expected_length bytes,
\* expected_length being the length byte of the first frame, and the checksum
\* compared is the sum mod 256 of the direction byte, the length byte and
\* the returned bytes.
C7_AsStated ==
    exit = "complete"
        => /\ Len(result) = expected_packet_length
           /\ expected_packet_length = FirstBody[3]
           /\ checksum = (FirstBody[2] + FirstBody[3]
                          + SumOf(result, 1, Len(result))) % 256

\* the first frame carries direction and length as an escaped stream does:
\* the direction byte is not 0xAA and a length byte 0xAA is doubled
HeaderAsEscaped ==
    /\ FirstBody[2] # SYNC
    /\ FirstBody[3] = SYNC => (Len(FirstBody) >= 4 /\ FirstBody[4] = SYNC)

\* C7 amended: a completed packet returns exactly expected_length bytes,
\* expected_length being body byte 2 of the first frame, and the checksum
\* compared is the sum mod 256 of the first two accumulated (unescaped)
\* bytes and the returned bytes; those two bytes are the direction byte and
\* the length byte when the first frame carries them as an escaped stream.
C7_LengthAndChecksum ==
    exit = "complete"
        => LET accumulated == AccumulatedFrom(received)
           IN  /\ Len(result) = expected_packet_length
               /\ expected_packet_length = FirstBody[3]
               /\ result = SubSeq(accumulated, 3, expected_packet_length + 2)
               /\ checksum = (accumulated[1] + accumulated[2]
                              + SumOf(result, 1, Len(result))) % 256
               /\ checksum_from_packet = accumulated[expected_packet_length + 3]
               /\ HeaderAsEscaped
                    => /\ accumulated[1] = FirstBody[2]
                       /\ accumulated[2] = FirstBody[3]

\* a packet spread over several frames has been completed with a matching
\* checksum and bytes to spare
C7_Witness ==
    /\ exit = "complete"
    /\ Len(received) >= 2
    /\ expected_packet_length > 0
    /\ checksum = checksum_from_packet
    /\ HeaderAsEscaped

\* C8: the stream cut into frames is one 0xAA followed by the escaped form
\* of 0x12, the length byte, the payload and the checksum c, c being the sum
\* mod 256 of 0x12, the length byte and the payload bytes.
C8_StreamLayout ==
    (pc = "written" /\ Len(data) <= MAX_PAYLOAD)
        => LET stream == BodiesOf(device_written, 1)
               c == (HOST_TO_CHARGER + Len(data) + SumOf(data, 1, Len(data)))
                        % 256
           IN  /\ stream = __preprocess_payload__(data)
               /\ stream[1] = SYNC
               /\ IsEscapedFormOf(Tail(stream),
                                  <<HOST_TO_CHARGER, Len(data)>> \o data \o <<c>>)

\* a payload holding 0xAA, its stream longer than one frame, has been written
C8_Witness ==
    /\ pc = "written"
    /\ Len(data) <= MAX_PAYLOAD
    /\ \E k \in 1..Len(data) : data[k] = SYNC
    /\ Len(device_written) >= 2

\* C9: every frame of a command starts 0x01, n with 1 <= n <= 62 body bytes,
\* n = 62 except in the last frame; the bodies in order are the stream; and
\* every frame handed to the device has 64 bytes, zero after the body.
C9_FrameLayout ==
    pc = "written"
        => LET frames == __generate_raw_frames__(data)
           IN  /\ Len(frames) >= 1
               /\ \A k \in 1..Len(frames) :
                     /\ frames[k][1] = 1
                     /\ frames[k][2] = Len(frames[k]) - 2
                     /\ frames[k][2] \in 1..CHUNK_SIZE
                     /\ k < Len(frames) => frames[k][2] = CHUNK_SIZE
               /\ BodiesOf(frames, 1) = __preprocess_payload__(data)
               /\ Len(device_written) = Len(frames)
               /\ \A k \in 1..Len(device_written) :
                     /\ Len(device_written[k]) = FRAME_SIZE
                     /\ SubSeq(device_written[k], 1, Len(frames[k])) = frames[k]
                     /\ \A j \in (Len(frames[k]) + 1)..FRAME_SIZE :
                           device_written[k][j] = 0

\* a command of several frames has been written, the last one padded
C9_Witness ==
    /\ pc = "written"
    /\ Len(device_written) >= 2
    /\ device_written[Len(device_written)][2] < CHUNK_SIZE
    /\ device_written[1][2] = CHUNK_SIZE

\* C10: the frames written for one packet never carry more than 255 payload
\* bytes between the length byte and the checksum byte.
C10_AtMost255PayloadBytes ==
    pc = "written"
        => Len(__unescape_synchronization__(
                   Tail(BodiesOf(device_written, 1)))) - 3 <= MAX_PAYLOAD

(***************************************************************************)
(* parse_packet.                                                           *)
(***************************************************************************)
\* parse_packet was called with a supported model tag and a payload of at
\* least one byte
ParsedPayload ==
    /\ pc = "parsed"
    /\ model \in {"A4", "C4", "C4EVO", "Q8", "ignore"}
    /\ packet # None
    /\ packet # << >>

\* ... and handed back a dict
ParsedRecord == ParsedPayload /\ parse_exit = "return"

\* C11 as stated: every record parse_packet returns holds the keys _type and
\* _malformed.
C11_AsStated ==
    ParsedRecord => {"_type", "_malformed"} \subseteq DOMAIN record

\* C11: every record parse_packet returns holds the key _type, and holds the
\* key _malformed, a boolean, exactly when its _type is not "unknown".
C11_TypeAndMalformed ==
    ParsedRecord
        => /\ "_type" \in DOMAIN record
           /\ ("_malformed" \in DOMAIN record) <=> (record["_type"] # "unknown")
           /\ "_malformed" \in DOMAIN record
                  => record["_malformed"] \in BOOLEAN

\* the record of a known opcode, holding both keys, was returned
C11_Witness ==
    /\ ParsedRecord
    /\ packet[1] = 3
    /\ "_malformed" \in DOMAIN record

\* C12: for every supported model tag and every payload read_packet can
\* return, parse_packet returns a record and does not raise.
C12_NeverRaises ==
    (pc = "parsed" /\ model \in {"A4", "C4", "C4EVO", "Q8", "ignore"}
     /\ packet # None)
        => parse_exit = "return"

\* the opcodes of the dispatch table as the claim lists them
ListedOpcodes == {1, 225, 241, 193, 201, 253, 223, 247, 249, 251, 229}

\* the record has the key _type, with the value "unknown", and no other key
OnlyTypeUnknown ==
    /\ parse_exit = "return"
    /\ DOMAIN record = {"_type"}
    /\ record["_type"] = "unknown"

\* C13 as stated: a payload whose first byte is none of the eleven listed
\* opcodes yields a record that holds _type = "unknown" and nothing else.
C13_AsStated ==
    (ParsedPayload /\ packet[1] \notin ListedOpcodes) => OnlyTypeUnknown

\* C13: a payload whose first byte is neither 0x03 nor one of the eleven
\* listed opcodes yields a record that holds _type = "unknown" and nothing
\* else; parse_packet does not raise.
C13_UnknownOpcode ==
    (ParsedPayload /\ packet[1] \notin (ListedOpcodes \cup {3}))
        => OnlyTypeUnknown

\* a payload of several bytes and opcode 0x55 was parsed
C13_Witness ==
    /\ ParsedPayload
    /\ packet[1] = 85
    /\ Len(packet) > 1
    /\ OnlyTypeUnknown

\* the valid lengths and the _type of the opcodes that have fixed lengths
ValidLengths ==
    (1 :> {4, 10}) @@ (225 :> {29, 31, 39}) @@ (241 :> {2}) @@ (193 :> {2})
    @@ (201 :> {13}) @@ (253 :> {1, 2}) @@ (223 :> {1, 26}) @@ (247 :> {15})
    @@ (249 :> {29}) @@ (251 :> {19})

TypeOfOpcode ==
    (1 :> "link test") @@ (225 :> "device information")
    @@ (241 :> "reboot to boot loader") @@ (193 :> "rename device")
    @@ (201 :> "serial number") @@ (253 :> "reboot to app")
    @@ (223 :> "metrics") @@ (247 :> "app checksum") @@ (249 :> "sensors")
    @@ (251 :> "unknown voltages")

\* C14: a payload of an opcode with fixed lengths yields a record with the
\* opcode's _type; _malformed is false when the length is one of the valid
\* ones and true otherwise, but for 0xF1 of length 2 whose byte 1 is neither
\* 0x00 nor 0x02, which is malformed.
C14_MalformedByLength ==
    (ParsedPayload /\ packet[1] \in DOMAIN ValidLengths)
        => /\ parse_exit = "return"
           /\ "_type" \in DOMAIN record
           /\ record["_type"] = TypeOfOpcode[packet[1]]
           /\ "_malformed" \in DOMAIN record
           /\ record["_malformed"] =
                 ~ /\ Len(packet) \in ValidLengths[packet[1]]
                   /\ ~(packet[1] = 241 /\ packet[2] \notin {0, 2})

\* C15: parse_packet raises the unsupported-model error exactly for the
\* model tags outside {A4, C4, C4EVO, Q8, ignore}, whatever the payload.
C15_UnsupportedModel ==
    pc = "parsed"
        => (parse_exit = "ValueError"
              <=> model \notin {"A4", "C4", "C4EVO", "Q8", "ignore"})

\* the empty payload was parsed with a tag that is not supported: the
\* model test came first
C15_Witness ==
    /\ pc = "parsed"
    /\ model = "c4"
    /\ packet = << >>
    /\ parse_exit = "ValueError"

\* a metrics payload of 26 bytes was parsed
ParsedMetrics ==
    /\ ParsedPayload
    /\ packet[1] = 223
    /\ Len(packet) = 26

\* the label tables of the models, by id
ModeLabels ==
    << "idling", "waiting", "reversed", "charging", "charged", "discharging",
       "discharged", "storage", "storage done", "cycling", "cycling done",
       "analysis", "analysis done" >>

ModeLabel(tag, id) ==
    CASE tag \in {"A4", "C4", "C4EVO"} /\ id <= 12 -> ModeLabels[id + 1]
      [] tag = "C4EVO" /\ id = 13 -> "activate"
      [] tag = "C4EVO" /\ id = 15 -> "destroy"
      [] tag = "C4EVO" /\ id = 17 -> "Cut off"
      [] tag = "Q8" /\ id = 3 -> "charging"
      [] OTHER -> "unknown"

ChemistryLabel(tag, id) ==
    CASE tag \in {"A4", "C4"} /\ id <= 9 ->
            << "auto", "LiHv", "Li-Ion", "LiPO4", "unknown", "NiZn",
               "NiMH!!!", "Eneloop", "NiCd", "NiMH" >>[id + 1]
      [] tag = "C4EVO" /\ id <= 4 ->
            << "LiHv", "LiIon", "LiFe", "NiZn", "NiMH" >>[id + 1]
      [] tag = "Q8" /\ id = 9 -> "LiIon"
      [] OTHER -> "unknown"

DimensionsLabel(tag, id) ==
    CASE tag = "A4" /\ id = 0 -> "AA(A)"
      [] tag = "C4" /\ id <= 4 ->
            << "AAA", "AA", "18650", "26650", "empty" >>[id + 1]
      [] OTHER -> "unknown"

\* C16: in the record of a 26-byte metrics payload the mode, chemistry and
\* dimensions strings are the labels of the model's tables for the three
\* ids, and "unknown" for an id the table does not hold; the lookup does not
\* raise.  Model C4 with the ids 3, 9, 0 gives charging, NiMH, AAA.
C16_LabelLookup ==
    ParsedMetrics
        => /\ parse_exit = "return"
           /\ record["mode id"] = packet[3]
           /\ record["chemistry id"] = packet[4]
           /\ record["dimensions id"] = packet[5]
           /\ record["mode string"] = ModeLabel(model, packet[3])
           /\ record["chemistry string"] = ChemistryLabel(model, packet[4])
           /\ record["dimensions string"] = DimensionsLabel(model, packet[5])
           /\ (model = "C4" /\ packet[3] = 3 /\ packet[4] = 9 /\ packet[5] = 0)
                 => /\ record["mode string"] = "charging"
                    /\ record["chemistry string"] = "NiMH"
                    /\ record["dimensions string"] = "AAA"
           /\ model = "ignore"
                 => /\ record["mode string"] = "unknown"
                    /\ record["chemistry string"] = "unknown"
                    /\ record["dimensions string"] = "unknown"

\* model C4 with the ids 3, 9 and 0 was parsed
C16_Witness ==
    /\ ParsedMetrics
    /\ model = "C4"
    /\ packet[3] = 3 /\ packet[4] = 9 /\ packet[5] = 0
    /\ record["dimensions string"] = "AAA"

\* a byte read as a signed 8-bit integer
Signed8(b) == IF b >= 128 THEN b - 256 ELSE b

\* C17: in the record of a 26-byte metrics payload temperature and
\* internal_temperature are the payload bytes 5 and 6 read as signed 8-bit
\* integers, so they lie in -128..127.
C17_SignedTemperatures ==
    ParsedMetrics
        => /\ parse_exit = "return"
           /\ record["temperature"] = Signed8(packet[6])
           /\ record["internal_temperature"] = Signed8(packet[7])
           /\ record["temperature"] \in -128..127
           /\ record["internal_temperature"] \in -128..127

\* C18: a link test payload of 4 bytes yields _type = link test and result =
\* true; one of 10 bytes whose byte 1 is 0 yields inside boot loader = true
\* and a model string that is not empty, the bytes 2..9 without the NULs at
\* their end.
C18_LinkTest ==
    (ParsedPayload /\ packet[1] = 1)
        => /\ Len(packet) = 4
                => /\ parse_exit = "return"
                   /\ record["_type"] = "link test"
                   /\ record["result"] = TRUE
           /\ (Len(packet) = 10 /\ packet[2] = 0)
                => /\ parse_exit = "return"
                   /\ record["_type"] = "link test"
                   /\ record["inside boot loader"] = TRUE
                   /\ record["model"] # << >>
                   /\ \E n \in 1..8 :
                         /\ record["model"] = SubSeq(packet, 3, 2 + n)
                         /\ \A k \in (3 + n)..10 : packet[k] = 0

(***************************************************************************)
(* decrypt_firmware_image.                                                 *)
(***************************************************************************)
\* decrypt_firmware_image has been run to its end
Decrypted == pc = "decrypted"

\* C19: with fewer than 32 bytes of input decrypt_firmware_image fails with
\* the truncated-header error and hands no result to its caller.
C19_TruncatedHeaderFails ==
    (Decrypted /\ Len(encrypted) < 32) => decrypt_exit # "return"

\* a 32-bit word as the pair of its 16-bit halves, and from the four bytes
Halves(w) == [lo |-> w[1] + 256 * w[2], hi |-> w[3] + 256 * w[4]]

\* (a + b) mod 2^32 on halves
Plus32(a, b) ==
    [lo |-> (a.lo + b.lo) % 65536,
     hi |-> (a.hi + b.hi + ((a.lo + b.lo) \div 65536)) % 65536]

\* the exclusive or of two 16-bit numbers, bit by bit
XorBit(a, b, i) == ((a \div (2 ^ i)) + (b \div (2 ^ i))) % 2

Xor16(a, b) ==
    XorBit(a, b, 0) + 2 * XorBit(a, b, 1) + 4 * XorBit(a, b, 2)
    + 8 * XorBit(a, b, 3) + 16 * XorBit(a, b, 4) + 32 * XorBit(a, b, 5)
    + 64 * XorBit(a, b, 6) + 128 * XorBit(a, b, 7) + 256 * XorBit(a, b, 8)
    + 512 * XorBit(a, b, 9) + 1024 * XorBit(a, b, 10)
    + 2048 * XorBit(a, b, 11) + 4096 * XorBit(a, b, 12)
    + 8192 * XorBit(a, b, 13) + 16384 * XorBit(a, b, 14)
    + 32768 * XorBit(a, b, 15)

Xor32(a, b) == [lo |-> Xor16(a.lo, b.lo), hi |-> Xor16(a.hi, b.hi)]

\* the word of 4 bytes at byte offset off of s
WordAt(s, off) == Halves(SubSeq(s, off + 1, off + 4))

\* k_i of the claim: k_0 is word 1 of the header, key1 is word 0
RECURSIVE K(_)
K(i) ==
    IF i = 0 THEN WordAt(encrypted, 4)
    ELSE Xor32(Plus32(K(i - 1), WordAt(encrypted, 0)), WordAt(encrypted, 0))

\* the sum mod 2^32 of the blocks 0..(count - 1) of the output
RECURSIVE SumOfOutput(_)
SumOfOutput(count) ==
    IF count = 0 THEN [lo |-> 0, hi |-> 0]
    ELSE Plus32(SumOfOutput(count - 1), WordAt(output, 4 * (count - 1)))

\* the blocks written are the floor(n / 4) whole blocks of the body, block
\* i being cipher_i XOR k_i
BlocksAsClaimed ==
    LET n == Len(encrypted) - 32
    IN  /\ Len(output) = 4 * (n \div 4)
        /\ \A i \in 0..((n \div 4) - 1) :
              WordAt(output, 4 * i) = Xor32(WordAt(encrypted, 32 + 4 * i), K(i))

\* a dict is returned whose calculated_checksum is the sum of the blocks
ChecksumAsClaimed ==
    /\ decrypt_exit = "return"
    /\ "calculated_checksum" \in DOMAIN header
    /\ Halves(header["calculated_checksum"])
          = SumOfOutput((Len(encrypted) - 32) \div 4)

\* C20: for a 32-byte header followed by n body bytes the output is
\* floor(n / 4) blocks, block i = cipher_i XOR k_i with k_0 = word 1,
\* key1 = word 0 and k_(i+1) = ((k_i + key1) mod 2^32) XOR key1, a partial
\* last block is dropped, and the calculated_checksum returned is the sum
\* mod 2^32 of the blocks written, 0 when there are none.
C20_BlocksAndChecksum ==
    (Decrypted /\ Len(encrypted) >= 32)
        => (BlocksAsClaimed /\ ChecksumAsClaimed)

\* the keys of the header fields and of the two checksums
HeaderKeys ==
    {"embedded_checksum", "calculated_checksum", "app_storage_offset",
     "data_storage_offset", "app_size", "data_size", "initial_baud_rate",
     "fast_baud_rate"}

\* the keys of the info structure
InfoKeys ==
    {"info_structure_pointer", "magic", "model_name", "hw_version",
     "sw_version", "entrypoint", "app_image_size"}

\* the word at offset 40 of the decoded image less app_storage_offset
InfoPointer ==
    pointer_of(from_bytes(SubSeq(output, 41, Min(44, Len(output)))),
               SubSeq(encrypted, 9, 12))

\* locating or decoding the info structure fails: the decoded image has no
\* 4 bytes at offset 40, the pointer is negative or has no 28 bytes behind
\* it, or the model name holds a byte that is not ASCII
InfoStructureFails ==
    \/ Len(output) < 44
    \/ InfoPointer < 0
    \/ InfoPointer + 28 > Len(output)
    \/ \E k \in (InfoPointer + 5)..(InfoPointer + 12) : output[k] >= 128

\* C21: after a header of 32 bytes, with an output that can be read back,
\* decrypt_firmware_image returns the header fields and both checksums
\* whatever the decoded image holds, and leaves out the info structure
\* fields when locating or decoding the info structure fails.
C21_InfoStructureNonFatal ==
    (Decrypted /\ Len(encrypted) >= 32 /\ output_kind \in {"BytesIO", "w+b"})
        => /\ decrypt_exit = "return"
           /\ HeaderKeys \subseteq DOMAIN header
           /\ header["embedded_checksum"] = SubSeq(encrypted, 5, 8)
           /\ InfoStructureFails => DOMAIN header \cap InfoKeys = {}


\* the last entry of the transport log is a command written
Outstanding(t) == t # << >> /\ t[Len(t)][1] = "write"

(***************************************************************************)
(* C22: at most one request is outstanding.  An operation of a session     *)
(* writes a command only when no command waits for its read_packet call    *)
(* and no read_packet call is in progress; after a command is written the  *)
(* next thing the operation does with the device is the read_packet call   *)
(* for its response: two commands are never written back to back.          *)
(***************************************************************************)
C22_OneRequestOutstanding ==
    /\ [](\A k \in 1..(Len(transport) - 1) :
             transport[k][1] = "write" => transport[k + 1] = <<"read_packet">>)
    /\ [][transport' # transport
            => IF Outstanding(transport)
               THEN /\ pc = "requested"
                    /\ transport' = Append(transport, <<"read_packet">>)
                    /\ pc' = "loop"
                    /\ UNCHANGED device_written
               ELSE /\ pc = "writing"
                    /\ Len(transport') = Len(transport) + 1
                    /\ transport' = Append(transport, <<"write", command>>)
                    /\ device_written' = write_to_charger(command)
                    /\ pc' = "requested"]_vars
    /\ [][(pc = "requested" /\ pc' # pc)
            => \/ transport' = Append(transport, <<"read_packet">>)
               \/ pc' = "done" /\ op_exit' = "KeyboardInterrupt"
                     /\ transport' = transport
               \/ pc' = "after loop" /\ locals'.interrupted
                     /\ transport' = transport]_vars

\* display_metrics has ended after at least two requests, each written
\* command followed by its read_packet call
C22_Witness ==
    /\ op = "display_metrics"
    /\ pc = "done"
    /\ Len(transport) >= 4
    /\ ~Outstanding(transport)


(***************************************************************************)
(* C23: when the read from the device raises an OSError, read_packet       *)
(* raises it to its caller and an operation of a session ends with it;     *)
(* nothing is read or written while the call stays failed, and the next    *)
(* read_packet call is entered with no frame read, no expected length and  *)
(* no packet data, whatever the failed call had accumulated.               *)
(***************************************************************************)
C23_ReadFailureAborts ==
    /\ [](exit = "OSError"
            => \/ pc = "raised"
               \/ pc = "done" /\ op # "" /\ op_exit = "OSError")
    /\ [][(pc = "loop" /\ captured_frames = NoFrames /\ pc' = "raised"
             /\ received' = received)
             => exit' = "OSError"]_vars
    /\ [][(exit = "OSError" /\ exit' = "OSError")
             => UNCHANGED <<received, device_written, transport,
                            expected_packet_length, packet_data>>]_vars
    /\ [][previous' # previous
             => /\ pc' = "loop"
                /\ received' = <<>>
                /\ expected_packet_length' = NoLength
                /\ packet_data' = None]_vars

\* a call failed after it had accumulated packet data, and the call after
\* it has completed a packet
C23_Witness ==
    /\ previous # NoRecord
    /\ previous.exit = "OSError"
    /\ previous.packet_data # None
    /\ pc = "returned"
    /\ exit = "complete"


\* the length of the run of 0xAA bytes of s that begins at k
RECURSIVE RunFrom(_, _)
RunFrom(s, k) ==
    IF k > Len(s) \/ s[k] # SYNC THEN 0 ELSE 1 + RunFrom(s, k + 1)

\* s from k on, every maximal run of n 0xAA bytes made floor(n/2) of them
\* and every other byte kept
RECURSIVE RunsHalved(_, _)
RunsHalved(s, k) ==
    IF k > Len(s) THEN <<>>
    ELSE IF s[k] # SYNC THEN <<s[k]>> \o RunsHalved(s, k + 1)
    ELSE [i \in 1..(RunFrom(s, k) \div 2) |-> SYNC]
         \o RunsHalved(s, k + RunFrom(s, k))

(***************************************************************************)
(* C24: __unescape_synchronization__ makes every maximal run of n 0xAA     *)
(* bytes floor(n/2) 0xAA bytes and keeps every other byte in its order; an *)
(* unmatched 0xAA is dropped without error, and 01 02 AA AA AA 01 yields   *)
(* the 4 bytes 01 02 AA 01.                                                *)
(***************************************************************************)
C24_RunsAreHalved ==
    pc = "unescaped bytes"
        => /\ unescaped = RunsHalved(escaped, 1)
           /\ escaped = BrokenSync => unescaped = <<1, 2, SYNC, 1>>

\* the bytes of test_broken_sync were unescaped
C24_Witness ==
    /\ pc = "unescaped bytes"
    /\ escaped = BrokenSync
    /\ Len(unescaped) = 4


\* the bytes of the frame f from index 2 up to, not including, the index
\* min(declared length + 2, length of f), the declared length being f's
\* byte 1 (indices from 0, as the claim counts them)
BodyAsClaimed(f) ==
    [i \in 1..(Min(f[2] + 2, Len(f)) - 2) |-> f[i + 2]]

(***************************************************************************)
(* C25: of a received frame of 3 bytes or more read_packet uses the bytes  *)
(* from index 2 up to min(declared length + 2, received length) and no     *)
(* other: when it goes on with the frame, the expected length and the      *)
(* accumulated packet data are made of these bytes alone, so the padding   *)
(* after them is ignored and no byte beyond the frame is read.             *)
(***************************************************************************)
C25_FrameBody ==
    [][(FrameUsed /\ Len(frame_as_received) >= MIN_FRAME)
          => LET body == BodyAsClaimed(frame_as_received)
             IN  IF expected_packet_length # NoLength
                 THEN /\ pc' = "loop"
                      /\ expected_packet_length' = expected_packet_length
                      /\ packet_data' =
                            packet_data \o __unescape_synchronization__(body)
                 ELSE IF Len(body) >= 3
                 THEN /\ pc' = "loop"
                      /\ expected_packet_length' = body[3]
                      /\ packet_data' = __unescape_synchronization__(
                                            SliceFrom(body, 1))
                 ELSE /\ pc' = "raised"
                      /\ exit' = "IndexError"]_vars

\* a packet was completed from a frame padded beyond its declared length
C25_Witness ==
    /\ pc = "returned"
    /\ exit = "complete"
    /\ \E k \in 1..Len(received) :
          /\ Len(received[k]) >= MIN_FRAME
          /\ received[k][2] + 2 < Len(received[k])
          /\ received[k][Len(received[k])] = 0


(***************************************************************************)
(* C26: while the debug mode is on, assure_compatibility returns True for  *)
(* every charger and every list of configurations.                         *)
(***************************************************************************)
C26_DebugSkipsCheck ==
    (pc = "ready" /\ DEBUG_MODE)
        => \A action \in GuardedActions :
              assure_compatibility(charger_model, charger_mode,
                                   configurations(action), DEBUG_MODE)


\* the charger's model and mode match one of the configurations of the
\* guarded action: each is the configuration's or is 'ignore'
Matching(a_model, a_mode, action) ==
    \E k \in 1..Len(configurations(action)) :
       /\ a_model \in {configurations(action)[k][1], "ignore"}
       /\ a_mode \in {configurations(action)[k][2], "ignore"}

\* the first byte of the command of a guarded action
OpcodeOf(action) ==
    CASE action = "rename_device" -> 192
      [] action = "read_serial_number" -> 200
      [] action = "display_metrics" -> 222
      [] action = "reboot_to_boot_loader" -> 240
      [] action = "reboot_to_app" -> 252
      [] action = "verify_firmware" -> 246
      [] action = "display_sensors" -> 248
      [] action = "display_channel_sensors" -> 228
      [] action = "display_channel_voltages" -> 228

\* the step writes the command of the guarded action once
WritesOnce(action) ==
    /\ Len(transport') = Len(transport) + 1
    /\ SubSeq(transport', 1, Len(transport)) = transport
    /\ transport'[Len(transport')][1] = "write"
    /\ transport'[Len(transport')][2][1] = OpcodeOf(action)
    /\ device_written' = write_to_charger(transport'[Len(transport')][2])

\* the step is the read_packet call for the command written last
ReadsOnce ==
    /\ Outstanding(transport)
    /\ transport' = Append(transport, <<"read_packet">>)
    /\ UNCHANGED device_written

\* the commands of the guarded action the device has taken
WrittenBy(action) ==
    {k \in 1..Len(transport) :
        /\ transport[k][1] = "write"
        /\ transport[k][2][1] = OpcodeOf(action)}

(***************************************************************************)
(* C27: a guarded action on a charger whose model and mode match none of   *)
(* its configurations ('ignore' matching any) writes nothing and reads     *)
(* nothing.  On a charger with a device that matches, every step of the    *)
(* action that touches the transport writes the action's command once or   *)
(* calls read_packet once for the command written; an action of one        *)
(* request has written its command exactly once when it reads the response *)
(* and never writes it again.                                              *)
(***************************************************************************)
C27_GuardedActions ==
    /\ [][op' \in GuardedActions
            => IF ~Matching(charger_model', charger_mode', op')
               THEN UNCHANGED <<transport, device_written, received>>
               ELSE IF device = "None"
               THEN UNCHANGED <<transport, device_written, received>>
               ELSE \/ transport' = transport
                    \/ WritesOnce(op')
                    \/ ReadsOnce]_vars
    /\ []((op \in GuardedActions /\ op # "display_metrics")
            => /\ Cardinality(WrittenBy(op)) <= 1
               /\ pc \in {"requested", "loop", "returned", "raised"}
                     => Cardinality(WrittenBy(op)) = 1)

\* an action was refused to a charger of mode 'ignore' whose model is none
\* of the action's, the debug mode being on
C27_Witness ==
    /\ op \in GuardedActions
    /\ ~Matching(charger_model, charger_mode, op)
    /\ charger_mode = "ignore"
    /\ DEBUG_MODE
    /\ pc = "done"
    /\ op_exit = "return"
    /\ transport = << >>


\* the requests of n rounds over the channels, in order: one metrics
\* command and one read_packet call per channel
RoundsOf(n, channels) ==
    [k \in 1..(2 * n * Len(channels)) |->
        IF k % 2 = 1
        THEN <<"write",
               metrics_command(channels[(((k - 1) \div 2) % Len(channels)) + 1])>>
        ELSE <<"read_packet">>]

\* the payload is an answer of a charger to a metrics request: the metrics
\* of a channel, or the opcode alone for a channel it does not have
MetricsAnswer(payload) ==
    /\ payload # None
    /\ Len(payload) \in {1, 26}
    /\ payload[1] = 223

\* display_metrics runs on a compatible charger
MetricsDisplayed ==
    op = "display_metrics" /\ "step" \in DOMAIN locals

(***************************************************************************)
(* C28: display_metrics with count = n > 0 on a device that answers every  *)
(* request ends after exactly n rounds, each with one metrics request and  *)
(* one read per listed channel in the order of the list, and has slept     *)
(* n - 1 times; the answers of the device do not end it before.  With      *)
(* count = 0 it ends only when it is interrupted.                          *)
(***************************************************************************)
C28_RoundsAndSleeps ==
    /\ []((MetricsDisplayed /\ pc = "done" /\ op_exit = "return"
             /\ ~locals.interrupted)
            => /\ locals.count > 0
               /\ locals.step = locals.count
               /\ transport = RoundsOf(locals.count, locals.channels)
               /\ sleeps = locals.count - 1)
    /\ [][(MetricsDisplayed /\ pc = "returned" /\ exit = "complete"
             /\ MetricsAnswer(result)
             /\ (locals.fieldnames = NoFields
                   \/ "_channel exists" \in locals.fieldnames))
            => ~(pc' = "done" /\ op_exit' # "return")]_vars


\* the ids monitor_state compares
ComparedIds == {"mode id", "chemistry id", "dimensions id"}

\* an iteration of monitor_state that has polled every discovered channel
\* ends with this step: it is completed, or left with an exception of the
\* comparison or of func
IterationEnded ==
    /\ op = "monitor_state"
    /\ locals.current_iteration > 0
    /\ pc \in {"returned", "func"}
    /\ pc' \in {"monitoring", "done"}
    /\ op_exit' # "KeyboardInterrupt"
    /\ Len(locals'.current_state) = Len(locals.state)

\* what channel k has answered in the poll of the iteration
Polled(k) == unmarked(locals'.current_state[k])

\* channel k has answered its metrics
Answered(k) == ComparedIds \cup {"channel"} \subseteq DOMAIN Polled(k)

\* the calls of func in the iteration with the reason key for channel k,
\* whose state of the poll before is last_state
CallsFor(k, key) ==
    {j \in 1..Len(func_calls') :
        /\ func_calls'[j].event["_reason"] = key
        /\ func_calls'[j].last_state = locals.state[k]
        /\ func_calls'[j].event["channel"] = Polled(k)["channel"]
        /\ func_calls'[j].event[key] = Polled(k)[key]}

\* the channels and ids that differ from the poll before
Changed ==
    {c \in (1..Len(locals.state)) \X ComparedIds :
        Answered(c[1]) /\ locals.state[c[1]][c[2]] # Polled(c[1])[c[2]]}

(***************************************************************************)
(* C29: in every iteration of monitor_state and for every discovered       *)
(* channel, func is called with the reason 'mode id' (or 'chemistry id',   *)
(* 'dimensions id') exactly when that id of the current poll differs from  *)
(* the channel's id in the poll before, the discovery for the first        *)
(* iteration; without a period and without a changed id func is not        *)
(* called, and after every iteration the current poll is the state         *)
(* compared with next.                                                     *)
(***************************************************************************)
C29_CallsOnChange ==
    [][IterationEnded
         => /\ \A k \in 1..Len(locals.state), key \in ComparedIds :
                  Answered(k)
                     => Cardinality(CallsFor(k, key)) =
                           IF <<k, key>> \in Changed THEN 1 ELSE 0
            /\ \A j \in 1..Len(func_calls') :
                  \/ func_calls'[j].event["_reason"] \in ComparedIds
                  \/ /\ func_calls'[j].event["_reason"] = "periodic"
                     /\ locals.period # NoPeriod
            /\ (locals.period = NoPeriod /\ Changed = {})
                  => func_calls' = << >>
            /\ pc' = "monitoring"
            /\ Len(locals'.state) = Len(locals.state)
            /\ \A k \in 1..Len(locals.state) :
                  unmarked(locals'.state[k]) = Polled(k)]_vars


\* read_packet was handed the frames of data followed by the frames of
\* second, both payloads of a length a packet can state
FedTwoPackets ==
    /\ second # None
    /\ Len(data) <= MAX_PAYLOAD
    /\ Len(second) <= MAX_PAYLOAD

(***************************************************************************)
(* C30: read_packet on a list of captured frames removes from its front    *)
(* exactly the frames of the packet it returns and leaves the later frames *)
(* in place: when the list holds the frames of two payloads one after the  *)
(* other, the first call returns the first payload and leaves the frames   *)
(* of the second, and the call after it returns the second payload.        *)
(***************************************************************************)
C30_TwoPacketsInAQueue ==
    /\ (FedTwoPackets /\ previous = NoRecord /\ Ended)
          => /\ pc = "returned"
             /\ exit = "complete"
             /\ result = data
             /\ received = __generate_raw_frames__(data)
             /\ captured_frames = __generate_raw_frames__(second)
    /\ (FedTwoPackets /\ previous # NoRecord /\ Ended)
          => /\ previous.result = data
             /\ pc = "returned"
             /\ exit = "complete"
             /\ result = second
             /\ received = __generate_raw_frames__(second)
             /\ captured_frames = <<>>

=============================================================================
